---- MODULE Spec2Model ----
(***************************************************************************)
(* Model of src/main.js: the Google Apps Script web app that copies a      *)
(* Drive folder tree, synchronously (doPost without callbackUrl) or as a   *)
(* background job (doPost with callbackUrl, processJobQueue ticks).        *)
(*                                                                         *)
(* Every script execution (a doPost request or a processJobQueue tick) is  *)
(* a process with a program counter.  The shared services are variables:   *)
(* the script lock, the JOB_QUEUE script property, the script cache (job   *)
(* payloads and the rate-limit timestamp), the destination Drive and the   *)
(* callback POSTs that were issued.                                        *)
(*                                                                         *)
(* Spec is the job lifecycle, with a call of copyFolderStructure as one    *)
(* step.  TreeSpec is one call of copyFolderStructure over a source tree,  *)
(* one Drive call per step.  RootSpec is several calls racing through the  *)
(* name resolution and the creation of their root in one destination.      *)
(***************************************************************************)
EXTENDS Integers, Sequences, FiniteSets, TLC

\* ------------------------------------------------------------------ bounds
\* Number of doPost executions and of processJobQueue executions explored.
MaxReq == 2
MaxTick == 2
\* Size of the source trees explored: folders (the root included) and files.
MaxFolder == 3
MaxFile == 2
\* Number of copyFolderStructure calls racing into one destination, and how
\* far the clock runs (in half seconds).
MaxCall == 2
MaxClock == 3
\* Number of tick slots that fire again and again under the trigger.
MaxLiveTick == 1

Reqs == 1..MaxReq
Ticks == 1..MaxTick
LiveTicks == 1..MaxLiveTick
\* A script execution: <<"req", r>> is the r-th doPost, <<"tick", t>> the t-th tick.
Execs == ({"req"} \X Reqs) \cup ({"tick"} \X Ticks)
ReqExec(r) == <<"req", r>>
TickExec(t) == <<"tick", t>>
\* Nobody holds the script lock.
Free == <<"none", 0>>
\* Utilities.getUuid() (main.js:117) returns a fresh id: the r-th request's is
\* r.  NoJob is the null of getNextJobFromQueue (main.js:267, 272, 284): no job.
NoJob == 0

VARIABLES
  pc,            \* pc[e]: where execution e is
  req,           \* req[r]: the request a running doPost still has to validate, else {}
  resp,          \* resp[r]: the JSON envelope doPost returned ({} before it returns)
  job,           \* job[e]: the jobId a request generated / a tick dequeued
  lq,            \* lq[e]: the local `queue` array between getProperty and setProperty
  run,           \* run[e]: the locals of e's copyFolderStructure call
  lock,          \* holder of LockService.getScriptLock(), or Free
  queueJson,     \* script property JOB_QUEUE: {} when unset, else {<<jobIds>>}
  cache,         \* cache[j]: the script cache entry 'job_' + j: {} or {payload}
  lastExecution, \* script cache entry 'lastExecution_<email>': "none", "fresh" (< 1 s old), "stale"
  drive,         \* what the executions created on the destination: <<e, kind>>
  posts,         \* posts[j]: the callback POSTs issued for job j, in order
  enqLog,        \* history: jobIds in the order addJobToQueue persisted them
  deqLog,        \* history: jobIds in the order getNextJobFromQueue returned them
  submitted,     \* history: submitted[j] is the payload doPost stored for j
  enqDone,       \* history: jobIds whose addJobToQueue call has returned
  pred,          \* history: pred[j] is enqDone when j's addJobToQueue call began
  mode,          \* history: mode[r] is what the r-th request asked for: "async" when it
                 \* carried a callbackUrl, "sync" when not ("none" before it arrived)
  lookup,        \* history: lookup[j] is "found" or "missing" once a tick looked up j's payload
  waited         \* history: waited[e] is how e's lock.waitLock call ended: "acquired",
                 \* "timeout", or "none" before the call

procVars == <<pc, req, resp, job, lq, run>>
svcVars == <<lock, queueJson, cache, lastExecution, drive, posts>>
histVars == <<enqLog, deqLog, submitted, enqDone, pred, mode, lookup, waited>>

\* What checkRateLimit and validateRequest leave behind.
VARIABLES
  recent,        \* the requests whose `now` (main.js:669) is less than a second old
  asked          \* history: asked[r].fault is what was wrong with the r-th request,
                 \* asked[r].fetched whether verifyFolderAccess was called for it

reqVars == <<recent, asked>>
queueVars == <<procVars, svcVars, histVars, reqVars>>

\* One call of copyFolderStructure (TreeSpec).
VARIABLES
  cpc,               \* where the call is
  source,            \* the source tree, as DriveApp shows it
  saveJsonOutput,    \* the saveJsonOutput argument
  destNames,         \* names of the folders the destination folder held before any call
  destFolders,       \* folders created on the destination; a folder's id is its index
  destFiles,         \* files created on the destination; a file's id is its index
  destinationFolder, \* whether the local destinationFolder has been assigned
  stack,             \* the frames of the running recursion, innermost last
  folderIdMap,       \* folderIdMap: new folder id -> its node of folderStructure
  createdFiles,      \* the flat list createdFiles
  success,           \* the locals success and errors, then returnData.success / .errors
  errors,
  summary,           \* returnData.summary
  itemFailed,        \* history: the source files whose copy threw
  thrown,            \* history: the Drive calls of the run that threw
  reportContent      \* what setContent wrote into the report file, if it did

treeVars == <<cpc, source, saveJsonOutput, destNames, destFolders, destFiles, destinationFolder,
              stack, folderIdMap, createdFiles, success, errors, summary, itemFailed, thrown, reportContent>>

\* Calls of copyFolderStructure into one destination (RootSpec); they share
\* destNames and destFolders with the above.
VARIABLES
  now,               \* the clock, in half seconds
  rpc,               \* rpc[c]: where call c is
  rloc               \* rloc[c]: the locals of call c

rootVars == <<now, rpc, rloc>>

copyVars == <<treeVars, rootVars>>
vars == <<queueVars, copyVars>>

\* ------------------------------------------------------------------ values
Range(s) == {s[i] : i \in DOMAIN s}

\* What can be wrong with a request (or, for "nokey", with the script's
\* API_KEY property), in the order validateRequest looks.
Faults ==
  {"none", "nobody", "badjson", "nokey", "badkey", "missing", "badid", "noaccess", "cachedown"}
\* A POST event as far as doPost looks at it: whether its body has a (truthy)
\* callbackUrl (main.js:112, 201), the saveJsonOutput field (absent becomes the
\* default), and what is wrong with it.
Requests == [callbackUrl : BOOLEAN, saveJsonOutput : {"absent", "true", "false"}, fault : Faults]

SAVE_JSON_REPORT_DEFAULT == TRUE

\* main.js:217-219: an absent saveJsonOutput becomes the configured default.
SaveFlag(v) == IF v = "absent" THEN SAVE_JSON_REPORT_DEFAULT ELSE v = "true"

\* Variant: the API key is not compared before the rate limit and the checks
\* of the parameters.
PreRateError_AuthLater(q) ==
  IF q.fault = "nobody" THEN "No POST data received."
  ELSE IF q.fault = "badjson" THEN "SyntaxError"
  ELSE IF q.fault = "nokey" THEN "API key has not been set."
  ELSE "ok"

\* main.js:184-198: what validateRequest throws before the rate limit is looked at.
PreRateError(q) ==
  IF q.fault = "nobody" THEN "No POST data received."
  ELSE IF q.fault = "badjson" THEN "SyntaxError"
  ELSE IF q.fault = "nokey" THEN "API key has not been set."
  ELSE IF q.fault = "badkey" THEN "Unauthorized. Invalid API key."
  ELSE "ok"

\* Variant: validateInput is missing, so malformed ids reach verifyFolderAccess
\* and, being ids of no folder the caller named wrongly, pass for valid.
PostRateError_NoFormatCheck(q) ==
  IF q.fault = "missing" THEN "Missing required parameters"
  ELSE IF q.fault = "noaccess" THEN "folder not found or access denied"
  ELSE "ok"

\* main.js:205-214: what validateRequest throws after the rate limit.
PostRateError(q) ==
  IF q.fault = "missing" THEN "Missing required parameters"
  ELSE IF q.fault = "badid" THEN "Invalid input format"
  ELSE IF q.fault = "noaccess" THEN "folder not found or access denied"
  ELSE "ok"

\* main.js:120-127: jobData as doPost caches it.  The callback URL of the r-th
\* request is named r.
JobData(r, q) == [callbackUrl |-> r, saveJsonOutput |-> SaveFlag(q.saveJsonOutput)]

\* The response envelopes of doPost.
ErrorResponse(msg) ==
  [success |-> FALSE, kind |-> "error", jobId |-> NoJob, dataSuccess |-> FALSE, error |-> msg]
JobResponse(j) ==
  [success |-> TRUE, kind |-> "job", jobId |-> j, dataSuccess |-> FALSE, error |-> "ok"]
DataResponse(r) ==
  [success |-> TRUE, kind |-> "data", jobId |-> NoJob, dataSuccess |-> r.success, error |-> "ok"]

\* copyFolderStructure's locals before it starts (main.js:386-394).
\* `url` is processJobQueue's callbackUrl local (main.js:311), 0 in a doPost.
NoRun == [success |-> TRUE, threw |-> FALSE, save |-> FALSE, newFolder |-> FALSE, url |-> NoJob]
StartRun(save) == [NoRun EXCEPT !.save = save]

\* ------------------------------------------------------------ the services
\* main.js:239 and 266-273: the array getProperty + JSON.parse yield; an unset
\* property and "[]" both give the empty array.
ParseQueue(p) == IF p = {} THEN <<>> ELSE CHOOSE s \in p : TRUE

\* Variant: a lock that excludes nobody (waitLock always succeeds).
CanAcquire_NoExclusion(e) == TRUE

\* main.js:235, 261: lock.waitLock succeeds for e only when nobody holds the
\* script lock.
CanAcquire(e) == lock = Free

\* Variant: the release is missing and the lock stays with its holder.
ReleaseLock_Never(e) == lock

\* Variant: releaseLock frees the lock whoever holds it.
ReleaseLock_Any(e) == Free

\* main.js:249, 286: lock.releaseLock() in the finally blocks releases only the
\* caller's own hold.
ReleaseLock(e) == IF lock = e THEN Free ELSE lock

\* ------------------------------------------------------------ Drive values
\* A folder name is a string, kept as the sequence of its pieces so that
\* getUniqueFolderName's concatenations (main.js:638, 643) are concatenations.
FolderNames == {<<"a">>, <<"b">>}

\* main.js:47 (CONFIG.JSON_REPORT_FILENAME) and the file names of the sources.
JSON_REPORT_FILENAME == "_folder_structure_report.json"
FileNames == {"f", JSON_REPORT_FILENAME}
\* File.getSize() of the source files.
Sizes == {1}

\* The source trees: folders[1] is the folder named by sourceFolderId, every
\* other folder lies in an earlier one; Drive lets siblings share a name.
FolderSeqs(n) ==
  {fs \in [1..n -> [parent : 0..(n - 1), name : FolderNames]] :
     /\ fs[1] = [parent |-> 0, name |-> <<"a">>]
     /\ \A i \in 2..n : fs[i].parent \in 1..(i - 1)}
FileSeqs(n, k) == [1..k -> [folder : 1..n, name : FileNames, size : Sizes]]
Sources ==
  UNION {UNION {{[folders |-> fs, files |-> fl] : fs \in FolderSeqs(n), fl \in FileSeqs(n, k)} :
                  k \in 0..MaxFile} : n \in 1..MaxFolder}

\* sourceFolder.getFolders() and .getFiles() (main.js:519, 543, 566): the
\* subfolders and the files of source folder f.
SubFoldersOf(src, f) == {i \in DOMAIN src.folders : src.folders[i].parent = f}
FilesOf(src, f) == {i \in DOMAIN src.files : src.files[i].folder = f}

\* A JavaScript object used as a map (subFolders, files): a set of
\* <<key, value>> pairs with one pair per key; m[k] = v overwrites.
Keys(m) == {p[1] : p \in m}
Put(m, k, v) == {p \in m : p[1] # k} \cup {<<k, v>>}
Get(m, k) == (CHOOSE p \in m : p[1] = k)[2]

\* main.js:637: Utilities.formatDate(new Date(), tz, "dd-MMM-yyyy HH:mm:ss")
\* keeps the whole seconds of the clock.
FormatDate(t) == t \div 2

\* main.js:638 and 643: the two candidate names.
Stamped(baseName, timestamp) == baseName \o <<" (", timestamp, ")">>
Numbered(baseName, timestamp, counter) ==
  baseName \o <<" (", timestamp, " - ", counter, ")">>

\* main.js:640-646: the while loop, entered with the first counter to try.
RECURSIVE NextFree(_, _, _, _)
NextFree(children, baseName, timestamp, counter) ==
  IF Numbered(baseName, timestamp, counter) \in children
    THEN NextFree(children, baseName, timestamp, counter + 1)
    ELSE Numbered(baseName, timestamp, counter)

\* Variant: the requested name is used as it is.
GetUniqueFolderName_Base(children, baseName, timestamp) == baseName

\* Variant: the name with the timestamp is used without looking whether it
\* is taken.
GetUniqueFolderName_NoRecheck(children, baseName, timestamp) ==
  IF baseName \notin children THEN baseName ELSE Stamped(baseName, timestamp)

\* main.js:632-649: getUniqueFolderName, for a parent folder whose folders
\* have the names `children`, called when the clock formats to `timestamp`.
GetUniqueFolderName(children, baseName, timestamp) ==
  IF baseName \notin children THEN baseName
  ELSE IF Stamped(baseName, timestamp) \notin children THEN Stamped(baseName, timestamp)
  ELSE NextFree(children, baseName, timestamp, 1)

\* The names of the folders in the destination folder: those it held and the
\* roots created in it (a created folder with parent 0 lies in the destination).
ChildNames ==
  destNames \cup {destFolders[i].name : i \in {k \in DOMAIN destFolders : destFolders[k].parent = 0}}

\* The calls of RootSpec.
Calls == 1..MaxCall
\* The locals of a call before it starts: the requested name, the clock when
\* getUniqueFolderName was called, mainFolderName, the id of newFolder; and as
\* history the folder names the destination held at that call and the calls
\* that had returned by then.
NoLocals == [base |-> <<>>, at |-> 0, name |-> <<>>, root |-> 0, seen |-> {}, earlier |-> {}]

\* No copyFolderStructure call is being looked at in detail.
TreeIdle ==
  /\ cpc = "off"
  /\ source = [folders |-> <<>>, files |-> <<>>]
  /\ saveJsonOutput = FALSE
  /\ destNames = {}
  /\ destFolders = <<>>
  /\ destFiles = <<>>
  /\ destinationFolder = FALSE
  /\ stack = <<>>
  /\ folderIdMap = <<>>
  /\ createdFiles = <<>>
  /\ success = TRUE
  /\ errors = <<>>
  /\ summary = [totalFiles |-> 0, totalSize |-> 0, folderCount |-> 0]
  /\ itemFailed = {}
  /\ thrown = {}
  /\ reportContent = {}
RootIdle ==
  /\ now = 0
  /\ rpc = [c \in Calls |-> "off"]
  /\ rloc = [c \in Calls |-> NoLocals]

QueueInit ==
  /\ pc = [e \in Execs |-> "idle"]
  /\ req = [r \in Reqs |-> {}]
  /\ resp = [r \in Reqs |-> {}]
  /\ job = [e \in Execs |-> NoJob]
  /\ lq = [e \in Execs |-> <<>>]
  /\ run = [e \in Execs |-> NoRun]
  /\ lock = Free
  /\ queueJson = {}
  /\ cache = [j \in Reqs |-> {}]
  /\ lastExecution = "none"
  /\ drive = {}
  /\ posts = [j \in Reqs |-> <<>>]
  /\ enqLog = <<>>
  /\ deqLog = <<>>
  /\ submitted = [j \in Reqs |-> {}]
  /\ enqDone = {}
  /\ pred = [j \in Reqs |-> {}]
  /\ mode = [r \in Reqs |-> "none"]
  /\ lookup = [j \in Reqs |-> "none"]
  /\ waited = [e \in Execs |-> "none"]
  /\ recent = {}
  /\ asked = [r \in Reqs |-> [fault |-> "none", fetched |-> FALSE]]

Init == QueueInit /\ TreeIdle /\ RootIdle

\* Executions are numbered in the order they start.
MayStart(e) == pc[e] = "idle" /\ (IF e[2] = 1 THEN TRUE ELSE pc[<<e[1], e[2] - 1>>] # "idle")

\* doPost returns the envelope `out` (main.js:138-142, 161-164, 167-174).
Respond(r, out) ==
  /\ resp' = [resp EXCEPT ![r] = {out}]
  /\ pc' = [pc EXCEPT ![ReqExec(r)] = "done"]

\* ------------------------------------------------------------------ doPost
\* Variant: the callbackUrl is ignored and every request runs synchronously.
IsAsync_Never(q) == FALSE

\* main.js:112: a truthy callbackUrl selects the asynchronous mode.
IsAsync(q) == q.callbackUrl

\* Variant: addJobToQueue is called before the payload is cached.
RouteAsync_QueueFirst(r, q) ==
  /\ job' = [job EXCEPT ![ReqExec(r)] = r]
  /\ cache' = cache
  /\ submitted' = submitted
  /\ pred' = [pred EXCEPT ![r] = enqDone]
  /\ pc' = [pc EXCEPT ![ReqExec(r)] = "add_wait"]
  /\ UNCHANGED <<resp, run>>

\* main.js:117-135: the asynchronous branch.  The request gets its jobId, its
\* payload is cached and addJobToQueue is called.
RouteAsync(r, q) ==
  /\ job' = [job EXCEPT ![ReqExec(r)] = r]
  /\ cache' = [cache EXCEPT ![r] = {JobData(r, q)}]
  /\ submitted' = [submitted EXCEPT ![r] = {JobData(r, q)}]
  /\ pred' = [pred EXCEPT ![r] = enqDone]
  /\ pc' = [pc EXCEPT ![ReqExec(r)] = "add_wait"]
  /\ UNCHANGED <<resp, run>>

\* main.js:149-157: the synchronous branch calls copyFolderStructure.
RouteSync(r, q) ==
  /\ pc' = [pc EXCEPT ![ReqExec(r)] = "copy"]
  /\ run' = [run EXCEPT ![ReqExec(r)] = StartRun(SaveFlag(q.saveJsonOutput))]
  /\ UNCHANGED <<resp, job, cache, submitted, pred>>

\* main.js:213-214: verifyFolderAccess is reached, and calls
\* DriveApp.getFolderById with the ids, once the ids are there and well formed.
VerifiesAccess(q) ==
  PostRateError(q) \notin {"Missing required parameters", "Invalid input format"}

\* main.js:128-132, 666-668, 167-174: what doPost answers when CacheService throws.
CacheError == ErrorResponse("cache")

\* main.js:205-221 and 112-135: the checks validateRequest makes after the
\* rate limit, then doPost's choice of mode; in the asynchronous mode the
\* cache.put of the payload may throw.
ValidateAndRoute(r, q) ==
  /\ asked' = [asked EXCEPT ![r] = [fault |-> q.fault, fetched |-> VerifiesAccess(q)]]
  /\ IF PostRateError(q) # "ok"
       THEN /\ Respond(r, ErrorResponse(PostRateError(q)))
            /\ UNCHANGED <<job, run, cache, submitted, pred>>
     ELSE IF IsAsync(q)
       THEN IF q.fault = "cachedown"
              THEN /\ Respond(r, CacheError)
                   /\ UNCHANGED <<job, run, cache, submitted, pred>>
              ELSE RouteAsync(r, q)
     ELSE RouteSync(r, q)

\* main.js:106-135 with validateRequest (182-222) and checkRateLimit's read
\* (666-673): the request is parsed and authenticated; a request without
\* callbackUrl then reads the rate-limit timestamp and the clock; one with
\* callbackUrl is validated and routed.
DoPostStart(r) ==
  /\ MayStart(ReqExec(r))
  /\ \E q \in Requests :
       /\ mode' = [mode EXCEPT ![r] = IF q.callbackUrl THEN "async" ELSE "sync"]
       /\ IF PreRateError(q) # "ok"
            THEN /\ Respond(r, ErrorResponse(PreRateError(q)))
                 /\ asked' = [asked EXCEPT ![r] = [fault |-> q.fault, fetched |-> FALSE]]
                 /\ UNCHANGED <<req, job, run, cache, submitted, pred, recent>>
          ELSE IF ~q.callbackUrl
            THEN /\ IF q.fault = "cachedown"
                      THEN /\ Respond(r, CacheError)
                           /\ UNCHANGED <<req, recent>>
                    ELSE IF lastExecution = "fresh"
                      THEN /\ Respond(r, ErrorResponse("Rate limit exceeded"))
                           /\ UNCHANGED <<req, recent>>
                      ELSE /\ pc' = [pc EXCEPT ![ReqExec(r)] = "rate_put"]
                           /\ req' = [req EXCEPT ![r] = {q}]
                           /\ recent' = recent \cup {r}
                           /\ resp' = resp
                 /\ asked' = [asked EXCEPT ![r] = [fault |-> q.fault, fetched |-> FALSE]]
                 /\ UNCHANGED <<job, run, cache, submitted, pred>>
          ELSE /\ ValidateAndRoute(r, q)
               /\ UNCHANGED <<req, recent>>
  /\ UNCHANGED <<copyVars, lq, lock, queueJson, lastExecution, drive, posts, enqLog, deqLog, enqDone, lookup, waited>>

\* Variant: the stored timestamp is the time of the put, not the `now` read
\* before the check.
PutTimestamp_AtPut(r) == "fresh"

\* main.js:669, 674: the timestamp checkRateLimit stores is the `now` it read
\* before the check, less than a second old or not.
PutTimestamp(r) == IF r \in recent THEN "fresh" ELSE "stale"

\* main.js:674 and 205-221, 112: checkRateLimit stores the timestamp, the
\* rest of validateRequest runs and doPost routes the request.
DoPostRatePut(r) ==
  /\ pc[ReqExec(r)] = "rate_put"
  /\ lastExecution' = PutTimestamp(r)
  /\ req' = [req EXCEPT ![r] = {}]
  /\ ValidateAndRoute(r, CHOOSE x \in req[r] : TRUE)
  /\ UNCHANGED <<copyVars, recent, lq, lock, queueJson, drive, posts, enqLog, deqLog, enqDone, mode, lookup, waited>>

\* Variant: the copy is called outside the try block, so an exception of
\* copyFolderStructure ends the execution without a response.
DoPostRespond_NoCatch(r) ==
  /\ pc[ReqExec(r)] = "copy_done"
  /\ IF run[ReqExec(r)].threw
       THEN pc' = [pc EXCEPT ![ReqExec(r)] = "crashed"] /\ resp' = resp
       ELSE Respond(r, DataResponse(run[ReqExec(r)]))
  /\ run' = [run EXCEPT ![ReqExec(r)] = NoRun]
  /\ UNCHANGED <<copyVars, reqVars, req, job, lq, svcVars, histVars>>

\* main.js:158-174: the synchronous copy returned (or threw) and doPost answers.
DoPostRespond(r) ==
  /\ pc[ReqExec(r)] = "copy_done"
  /\ IF run[ReqExec(r)].threw
       THEN Respond(r, ErrorResponse("copy failed"))
       ELSE Respond(r, DataResponse(run[ReqExec(r)]))
  /\ run' = [run EXCEPT ![ReqExec(r)] = NoRun]
  /\ UNCHANGED <<copyVars, reqVars, req, job, lq, svcVars, histVars>>

\* ----------------------------------------------------------- addJobToQueue
\* main.js:233-241: waitLock succeeds, the queue property is read and parsed
\* and the jobId is pushed onto the local array.
AddWaitLock(r) ==
  /\ pc[ReqExec(r)] = "add_wait"
  /\ CanAcquire(ReqExec(r))
  /\ lock' = ReqExec(r)
  /\ lq' = [lq EXCEPT ![ReqExec(r)] = Append(ParseQueue(queueJson), job[ReqExec(r)])]
  /\ pc' = [pc EXCEPT ![ReqExec(r)] = "add_set"]
  /\ waited' = [waited EXCEPT ![ReqExec(r)] = "acquired"]
  /\ UNCHANGED <<copyVars, reqVars, req, resp, job, run, queueJson, cache, lastExecution, drive, posts,
                 enqLog, deqLog, submitted, enqDone, pred, mode, lookup>>

\* Variant: the timeout is swallowed and addJobToQueue carries on without the
\* lock: it reads the queue and pushes the jobId.
AddLockTimeout_Ignored(r) ==
  /\ pc[ReqExec(r)] = "add_wait"
  /\ lock \notin {Free, ReqExec(r)}
  /\ lq' = [lq EXCEPT ![ReqExec(r)] = Append(ParseQueue(queueJson), job[ReqExec(r)])]
  /\ pc' = [pc EXCEPT ![ReqExec(r)] = "add_set"]
  /\ waited' = [waited EXCEPT ![ReqExec(r)] = "timeout"]
  /\ UNCHANGED <<copyVars, reqVars, req, resp, job, run, lock, queueJson, cache, lastExecution, drive, posts,
                 enqLog, deqLog, submitted, enqDone, pred, mode, lookup>>

\* main.js:235, 245-250, 167-174: waitLock times out while another execution
\* holds the lock; the catch rethrows, the finally releases (a lock this
\* execution does not hold) and doPost answers with the error.
AddLockTimeout(r) ==
  /\ pc[ReqExec(r)] = "add_wait"
  /\ lock \notin {Free, ReqExec(r)}
  /\ lock' = ReleaseLock(ReqExec(r))
  /\ Respond(r, ErrorResponse("Failed to queue job, could not acquire lock."))
  /\ waited' = [waited EXCEPT ![ReqExec(r)] = "timeout"]
  /\ UNCHANGED <<copyVars, reqVars, req, job, lq, run, queueJson, cache, lastExecution, drive, posts,
                 enqLog, deqLog, submitted, enqDone, pred, mode, lookup>>

\* main.js:243-250, 137-142: setProperty persists the extended queue, the
\* finally releases the lock and doPost answers with the jobId.
AddSetProperty(r) ==
  /\ pc[ReqExec(r)] = "add_set"
  /\ queueJson' = {lq[ReqExec(r)]}
  /\ lock' = ReleaseLock(ReqExec(r))
  /\ lq' = [lq EXCEPT ![ReqExec(r)] = <<>>]
  /\ enqLog' = Append(enqLog, job[ReqExec(r)])
  /\ enqDone' = enqDone \cup {job[ReqExec(r)]}
  /\ Respond(r, JobResponse(job[ReqExec(r)]))
  /\ UNCHANGED <<copyVars, reqVars, req, job, run, cache, lastExecution, drive, posts,
                 deqLog, submitted, pred, mode, lookup, waited>>

\* main.js:243-250, 167-174: setProperty throws (a PropertiesService fault);
\* the catch rethrows, the finally releases the lock, doPost answers the error.
AddSetFails(r) ==
  /\ pc[ReqExec(r)] = "add_set"
  /\ lock' = ReleaseLock(ReqExec(r))
  /\ lq' = [lq EXCEPT ![ReqExec(r)] = <<>>]
  /\ Respond(r, ErrorResponse("Failed to queue job, could not acquire lock."))
  /\ UNCHANGED <<copyVars, reqVars, req, job, run, queueJson, cache, lastExecution, drive, posts, histVars>>

\* ----------------------------------------------------- getNextJobFromQueue
\* main.js:294-295, 259-264: a tick starts, waitLock succeeds and the queue
\* property is read.
DeqWaitLock(t) ==
  /\ MayStart(TickExec(t))
  /\ CanAcquire(TickExec(t))
  /\ lock' = TickExec(t)
  /\ lq' = [lq EXCEPT ![TickExec(t)] = ParseQueue(queueJson)]
  /\ pc' = [pc EXCEPT ![TickExec(t)] = "deq_set"]
  /\ waited' = [waited EXCEPT ![TickExec(t)] = "acquired"]
  /\ UNCHANGED <<copyVars, reqVars, req, resp, job, run, queueJson, cache, lastExecution, drive, posts,
                 enqLog, deqLog, submitted, enqDone, pred, mode, lookup>>

\* Variant: after the timeout the head of the persisted queue is dropped.
DeqLockTimeout_Drops(t) ==
  /\ MayStart(TickExec(t))
  /\ lock \notin {Free, TickExec(t)}
  /\ lock' = ReleaseLock(TickExec(t))
  /\ queueJson' = IF ParseQueue(queueJson) = <<>> THEN queueJson
                  ELSE {Tail(ParseQueue(queueJson))}
  /\ pc' = [pc EXCEPT ![TickExec(t)] = "done"]
  /\ waited' = [waited EXCEPT ![TickExec(t)] = "timeout"]
  /\ UNCHANGED <<copyVars, reqVars, req, resp, job, lq, run, cache, lastExecution, drive, posts,
                 enqLog, deqLog, submitted, enqDone, pred, mode, lookup>>

\* main.js:261, 282-287, 297-300: waitLock times out while another execution
\* holds the lock; the catch returns null, the finally releases (a lock this
\* execution does not hold) and the tick returns.
DeqLockTimeout(t) ==
  /\ MayStart(TickExec(t))
  /\ lock \notin {Free, TickExec(t)}
  /\ lock' = ReleaseLock(TickExec(t))
  /\ pc' = [pc EXCEPT ![TickExec(t)] = "done"]
  /\ waited' = [waited EXCEPT ![TickExec(t)] = "timeout"]
  /\ UNCHANGED <<copyVars, reqVars, req, resp, job, lq, run, queueJson, cache, lastExecution, drive, posts,
                 enqLog, deqLog, submitted, enqDone, pred, mode, lookup>>

\* Variant: the head is read but left in the array (queue[0]).
Shift_Peek(q) == [jobId |-> Head(q), rest |-> q]

\* Variant: the last element is taken (queue.pop()).
Shift_Pop(q) == [jobId |-> q[Len(q)], rest |-> SubSeq(q, 1, Len(q) - 1)]

\* main.js:276: queue.shift() takes the head of the local array.
Shift(q) == [jobId |-> Head(q), rest |-> Tail(q)]

\* main.js:266-273, 285-287, 297-300: the property is unset or holds the empty
\* array: null is returned, the finally releases the lock and the tick returns.
DeqEmpty(t) ==
  /\ pc[TickExec(t)] = "deq_set"
  /\ lq[TickExec(t)] = <<>>
  /\ lock' = ReleaseLock(TickExec(t))
  /\ pc' = [pc EXCEPT ![TickExec(t)] = "done"]
  /\ UNCHANGED <<copyVars, reqVars, req, resp, job, lq, run, queueJson, cache, lastExecution, drive, posts, histVars>>

\* main.js:276-287: the head is shifted off, the remainder is persisted, the
\* finally releases the lock and the jobId is returned.
DeqSetProperty(t) ==
  /\ pc[TickExec(t)] = "deq_set"
  /\ lq[TickExec(t)] # <<>>
  /\ LET s == Shift(lq[TickExec(t)]) IN
       /\ queueJson' = {s.rest}
       /\ job' = [job EXCEPT ![TickExec(t)] = s.jobId]
       /\ deqLog' = Append(deqLog, s.jobId)
  /\ lock' = ReleaseLock(TickExec(t))
  /\ lq' = [lq EXCEPT ![TickExec(t)] = <<>>]
  /\ pc' = [pc EXCEPT ![TickExec(t)] = "lookup"]
  /\ UNCHANGED <<copyVars, reqVars, req, resp, run, cache, lastExecution, drive, posts,
                 enqLog, submitted, enqDone, pred, mode, lookup, waited>>

\* main.js:278, 282-287, 297-300: setProperty throws; the catch returns null,
\* the finally releases the lock and the tick returns without a job.
DeqSetFails(t) ==
  /\ pc[TickExec(t)] = "deq_set"
  /\ lq[TickExec(t)] # <<>>
  /\ lock' = ReleaseLock(TickExec(t))
  /\ lq' = [lq EXCEPT ![TickExec(t)] = <<>>]
  /\ pc' = [pc EXCEPT ![TickExec(t)] = "done"]
  /\ UNCHANGED <<copyVars, reqVars, req, resp, job, run, queueJson, cache, lastExecution, drive, posts, histVars>>

\* --------------------------------------------------------- processJobQueue
\* Variant: the lookup sits inside the try block, so a missing payload raises
\* there and the catch block sends an error callback (to no URL).
TickLookup_NoDiscard(t) ==
  /\ pc[TickExec(t)] = "lookup"
  /\ IF cache[job[TickExec(t)]] = {}
       THEN /\ pc' = [pc EXCEPT ![TickExec(t)] = "copy_done"]
            /\ lookup' = [lookup EXCEPT ![job[TickExec(t)]] = "missing"]
            /\ run' = [run EXCEPT ![TickExec(t)].threw = TRUE]
       ELSE LET jobData == CHOOSE d \in cache[job[TickExec(t)]] : TRUE IN
            /\ pc' = [pc EXCEPT ![TickExec(t)] = "copy"]
            /\ lookup' = [lookup EXCEPT ![job[TickExec(t)]] = "found"]
            /\ run' = [run EXCEPT ![TickExec(t)] =
                         [StartRun(jobData.saveJsonOutput) EXCEPT !.url = jobData.callbackUrl]]
  /\ UNCHANGED <<copyVars, reqVars, req, resp, job, lq, svcVars, enqLog, deqLog, submitted, enqDone, pred, mode, waited>>

\* Variant: after a job without payload the tick goes back for the next job.
TickLookup_ClaimNext(t) ==
  /\ pc[TickExec(t)] = "lookup"
  /\ IF cache[job[TickExec(t)]] = {}
       THEN /\ pc' = [pc EXCEPT ![TickExec(t)] = "idle"]
            /\ lookup' = [lookup EXCEPT ![job[TickExec(t)]] = "missing"]
            /\ run' = run
       ELSE LET jobData == CHOOSE d \in cache[job[TickExec(t)]] : TRUE IN
            /\ pc' = [pc EXCEPT ![TickExec(t)] = "copy"]
            /\ lookup' = [lookup EXCEPT ![job[TickExec(t)]] = "found"]
            /\ run' = [run EXCEPT ![TickExec(t)] =
                         [StartRun(jobData.saveJsonOutput) EXCEPT !.url = jobData.callbackUrl]]
  /\ UNCHANGED <<copyVars, reqVars, req, resp, job, lq, svcVars, enqLog, deqLog, submitted, enqDone, pred, mode, waited>>

\* main.js:304-320: the payload is looked up; without one the job is
\* discarded, with one the copy is entered with the payload's arguments.
TickLookup(t) ==
  /\ pc[TickExec(t)] = "lookup"
  /\ IF cache[job[TickExec(t)]] = {}
       THEN /\ pc' = [pc EXCEPT ![TickExec(t)] = "done"]
            /\ lookup' = [lookup EXCEPT ![job[TickExec(t)]] = "missing"]
            /\ run' = run
       ELSE LET jobData == CHOOSE d \in cache[job[TickExec(t)]] : TRUE IN
            /\ pc' = [pc EXCEPT ![TickExec(t)] = "copy"]
            /\ lookup' = [lookup EXCEPT ![job[TickExec(t)]] = "found"]
            /\ run' = [run EXCEPT ![TickExec(t)] =
                         [StartRun(jobData.saveJsonOutput) EXCEPT !.url = jobData.callbackUrl]]
  /\ UNCHANGED <<copyVars, reqVars, req, resp, job, lq, svcVars, enqLog, deqLog, submitted, enqDone, pred, mode, waited>>

\* ----------------------------------------------------- copyFolderStructure
\* What a run creates on the destination.
Kinds == {"root", "subfolder", "file", "report"}

\* How one call of copyFolderStructure goes:
\*   root   - main.js:397-404 succeed (source and destination fetched, root created);
\*   tree   - main.js:415-416: "copied", or a makeCopy failed and was skipped
\*            (546-563), or a createFolder failed (522) and ended the try block;
\*            "none" when there is no root;
\*   finish - main.js:424-513: "returned", or the placeholder could not be
\*            created (463), or its content could not be written (491-494), or a
\*            Drive call outside every try (432-439) threw out of the function.
Outcomes ==
  {o \in [root : BOOLEAN,
          tree : {"none", "copied", "item_failed", "folder_failed"},
          finish : {"returned", "create_failed", "write_failed", "threw"}] :
     o.root <=> (o.tree # "none")}

\* main.js:455: the report is written only when asked for and a root exists.
WritesReport(save, o) == save /\ o.root /\ o.finish # "threw"

\* Outcome o can happen to a call with this saveJsonOutput.
Possible(save, o) ==
  (o.finish \in {"create_failed", "write_failed"}) => WritesReport(save, o)

\* main.js:387, 419, 507: the success flag of the result.
ResultSuccess(o) ==
  /\ o.root
  /\ o.tree # "folder_failed"
  /\ o.finish \notin {"create_failed", "write_failed"}

\* What the call leaves on the destination; nothing is ever removed.
Created(e, save, o) ==
  (IF o.root THEN {<<e, "root">>} ELSE {})
  \cup (IF o.tree \in {"copied", "item_failed"} THEN {<<e, "subfolder">>} ELSE {})
  \cup (IF o.tree = "copied" THEN {<<e, "file">>} ELSE {})
  \cup (IF WritesReport(save, o) /\ o.finish # "create_failed" THEN {<<e, "report">>} ELSE {})

\* main.js:385-513: one call of copyFolderStructure by execution e.
CopyFolderStructure(e) ==
  /\ pc[e] = "copy"
  /\ \E o \in Outcomes :
       /\ Possible(run[e].save, o)
       /\ drive' = drive \cup Created(e, run[e].save, o)
       /\ run' = [run EXCEPT ![e].success = ResultSuccess(o),
                             ![e].threw = (o.finish = "threw"),
                             ![e].newFolder = o.root]
  /\ pc' = [pc EXCEPT ![e] = "copy_done"]
  /\ UNCHANGED <<copyVars, reqVars, req, resp, job, lq, lock, queueJson, cache, lastExecution, posts, histVars>>

\* -------------------------------------------- processJobQueue, after the copy
\* main.js:326-330 and 338-342: the two envelopes a tick sends.
ResponsePayload(j, r) ==
  [success |-> TRUE, jobId |-> j, kind |-> "data", dataSuccess |-> r.success]
ErrorPayload(j) ==
  [success |-> FALSE, jobId |-> j, kind |-> "error", dataSuccess |-> FALSE]

\* main.js:358-364: the POST sendCallback issues; `delivered` is whether
\* UrlFetchApp.fetch succeeded.
Post(url, payload, delivered) == [url |-> url, payload |-> payload, delivered |-> delivered]

\* Variant: sendCallback without its try/catch lets a failing fetch out.
SendCallbackThrows_NoCatch(delivered) == ~delivered

\* main.js:357, 367-371: sendCallback catches a failing fetch, so it never throws.
SendCallbackThrows(delivered) == FALSE

\* Variant: the payload is removed at the end of the try block, not in a finally.
FinallyRemove_OnSuccess(c, j, r) == IF r.threw THEN c ELSE [c EXCEPT ![j] = {}]

\* main.js:345-348: the payload store after the finally block of a tick that
\* processed job j with the copy run r.
FinallyRemove(c, j, r) == [c EXCEPT ![j] = {}]

\* Variant: the payload is removed before the callback is sent.
TickCallback_RemovesFirst(t) ==
  /\ pc[TickExec(t)] = "copy_done"
  /\ \E d1 \in BOOLEAN :
       LET e == TickExec(t)
           j == job[e]
           r == run[e]
           out == Post(r.url, IF r.threw THEN ErrorPayload(j) ELSE ResponsePayload(j, r), d1)
       IN /\ cache' = [cache EXCEPT ![j] = {}]
          /\ posts' = [posts EXCEPT ![j] = Append(@, out)]
          /\ pc' = [pc EXCEPT ![e] = "finally"]
  /\ UNCHANGED <<copyVars, reqVars, req, resp, job, lq, run, lock, queueJson, lastExecution, drive, histVars>>

\* main.js:323-344: the callback.  After a copy that returned, the result is
\* sent with success: true; an exception in the try block (from the copy, or
\* from sendCallback if it let one out) reaches the catch, which sends the
\* error envelope.
TickCallback(t) ==
  /\ pc[TickExec(t)] = "copy_done"
  /\ \E d1 \in BOOLEAN, d2 \in BOOLEAN :
       LET e == TickExec(t)
           j == job[e]
           r == run[e]
           ok == Post(r.url, ResponsePayload(j, r), d1)
           err1 == Post(r.url, ErrorPayload(j), d1)
           err2 == Post(r.url, ErrorPayload(j), d2)
       IN IF r.threw
            THEN /\ posts' = [posts EXCEPT ![j] = Append(@, err1)]
                 /\ pc' = [pc EXCEPT ![e] =
                             IF SendCallbackThrows(d1) THEN "finally_throw" ELSE "finally"]
          ELSE IF SendCallbackThrows(d1)
            THEN /\ posts' = [posts EXCEPT ![j] = Append(Append(@, ok), err2)]
                 /\ pc' = [pc EXCEPT ![e] =
                             IF SendCallbackThrows(d2) THEN "finally_throw" ELSE "finally"]
          ELSE /\ posts' = [posts EXCEPT ![j] = Append(@, ok)]
               /\ pc' = [pc EXCEPT ![e] = "finally"]
  /\ UNCHANGED <<copyVars, reqVars, req, resp, job, lq, run, lock, queueJson, cache, lastExecution, drive, histVars>>

\* main.js:345-349: the finally block removes the payload and the tick ends,
\* normally or with the exception that came out of the catch block.
TickFinally(t) ==
  /\ pc[TickExec(t)] \in {"finally", "finally_throw"}
  /\ cache' = FinallyRemove(cache, job[TickExec(t)], run[TickExec(t)])
  /\ run' = [run EXCEPT ![TickExec(t)] = NoRun]
  /\ pc' = [pc EXCEPT ![TickExec(t)] = IF pc[TickExec(t)] = "finally" THEN "done" ELSE "crashed"]
  /\ UNCHANGED <<copyVars, reqVars, req, resp, job, lq, lock, queueJson, lastExecution, drive, posts, histVars>>

\* ------------------------------------------------------------ environment
\* CacheService drops 'job_' + j: its TTL (main.js:49, 131) ran out or the
\* entry was evicted.
ExpirePayload(j) ==
  /\ cache[j] # {}
  /\ cache' = [cache EXCEPT ![j] = {}]
  /\ UNCHANGED <<copyVars, reqVars, procVars, lock, queueJson, lastExecution, drive, posts, histVars>>

\* A second passes: the rate-limit timestamp and every `now` read so far
\* (main.js:669) are older than one second (671).  The timestamp's expiry
\* after 60 s (674) changes nothing checkRateLimit can see: an absent and a
\* stale timestamp both admit.
RateAge ==
  /\ lastExecution = "fresh" \/ recent # {}
  /\ lastExecution' = IF lastExecution = "fresh" THEN "stale" ELSE lastExecution
  /\ recent' = {}
  /\ UNCHANGED <<copyVars, asked, procVars, lock, queueJson, cache, drive, posts, histVars>>

Next ==
  \/ \E r \in Reqs : DoPostStart(r)
  \/ \E r \in Reqs : DoPostRatePut(r)
  \/ \E r \in Reqs : DoPostRespond(r)
  \/ \E r \in Reqs : AddWaitLock(r)
  \/ \E r \in Reqs : AddLockTimeout(r)
  \/ \E r \in Reqs : AddSetProperty(r)
  \/ \E r \in Reqs : AddSetFails(r)
  \/ \E t \in Ticks : DeqWaitLock(t)
  \/ \E t \in Ticks : DeqLockTimeout(t)
  \/ \E t \in Ticks : DeqEmpty(t)
  \/ \E t \in Ticks : DeqSetProperty(t)
  \/ \E t \in Ticks : DeqSetFails(t)
  \/ \E t \in Ticks : TickLookup(t)
  \/ \E e \in Execs : CopyFolderStructure(e)
  \/ \E t \in Ticks : TickCallback(t)
  \/ \E t \in Ticks : TickFinally(t)
  \/ \E j \in Reqs : ExpirePayload(j)
  \/ RateAge

Spec == Init /\ [][Next]_vars

\* The steps of a started execution e.  Apps Script runs a started execution
\* to its end, and waitLock returns within its 30 s (main.js:235, 261).
Proceed(e) ==
  \/ /\ e[1] = "req"
     /\ \/ DoPostRatePut(e[2]) \/ DoPostRespond(e[2])
        \/ AddWaitLock(e[2]) \/ AddLockTimeout(e[2])
        \/ AddSetProperty(e[2]) \/ AddSetFails(e[2])
  \/ /\ e[1] = "tick"
     /\ \/ DeqEmpty(e[2]) \/ DeqSetProperty(e[2]) \/ DeqSetFails(e[2])
        \/ TickLookup(e[2]) \/ TickCallback(e[2]) \/ TickFinally(e[2])
  \/ CopyFolderStructure(e)

\* ======================================================= the trigger, forever
\* The asynchronous path with a trigger that keeps firing: requests with a
\* callbackUrl that pass validation, and ticks without end.

\* main.js:106-135: a valid request with a callbackUrl.
Submit(r) ==
  /\ DoPostStart(r)
  /\ mode'[r] = "async"
  /\ asked'[r].fault = "none"

\* main.js:72-75: the trigger fires processJobQueue every minute; the slot of
\* a tick that has ended stands for the next firing.
TickRestart(t) ==
  /\ pc[TickExec(t)] \in {"done", "crashed"}
  /\ pc' = [pc EXCEPT ![TickExec(t)] = "idle"]
  /\ job' = [job EXCEPT ![TickExec(t)] = NoJob]
  /\ waited' = [waited EXCEPT ![TickExec(t)] = "none"]
  /\ UNCHANGED <<copyVars, reqVars, req, resp, lq, run, svcVars,
                 enqLog, deqLog, submitted, enqDone, pred, mode, lookup>>

\* main.js:294-349: the steps of the t-th tick slot, its start included.
TickStep(t) ==
  \/ DeqWaitLock(t) \/ DeqLockTimeout(t)
  \/ Proceed(TickExec(t))
  \/ TickRestart(t)

LiveNext ==
  \/ \E r \in Reqs : Submit(r)
  \/ \E r \in Reqs : AddWaitLock(r)
  \/ \E r \in Reqs : AddLockTimeout(r)
  \/ \E r \in Reqs : AddSetProperty(r)
  \/ \E r \in Reqs : AddSetFails(r)
  \/ \E t \in LiveTicks : DeqWaitLock(t)
  \/ \E t \in LiveTicks : DeqLockTimeout(t)
  \/ \E t \in LiveTicks : DeqEmpty(t)
  \/ \E t \in LiveTicks : DeqSetProperty(t)
  \/ \E t \in LiveTicks : DeqSetFails(t)
  \/ \E t \in LiveTicks : TickLookup(t)
  \/ \E t \in LiveTicks : CopyFolderStructure(TickExec(t))
  \/ \E t \in LiveTicks : TickCallback(t)
  \/ \E t \in LiveTicks : TickFinally(t)
  \/ \E t \in LiveTicks : TickRestart(t)
  \/ \E j \in Reqs : ExpirePayload(j)

\* A started doPost runs to its end; the trigger keeps firing and a fired
\* tick runs to its end (each copy terminates); the lock is not always taken
\* when a tick asks for it, and setProperty does not fail for ever.
LiveFairness ==
  /\ \A r \in Reqs : WF_vars(Proceed(ReqExec(r)))
  /\ \A t \in LiveTicks : WF_vars(TickStep(t))
  /\ SF_vars(\E t \in LiveTicks : DeqWaitLock(t))
  /\ SF_vars(\E t \in LiveTicks : DeqSetProperty(t))

LiveSpec == Init /\ [][LiveNext]_vars /\ LiveFairness

\* ===================================================== copyFolderStructure
\* One call, one Drive call per step.  The call starts at main.js:396 with a
\* source tree, a saveJsonOutput flag and a destination that is empty or holds
\* a folder with the source root's name.
TreeInit ==
  /\ QueueInit
  /\ RootIdle
  /\ cpc = "start"
  /\ source \in Sources
  /\ saveJsonOutput \in BOOLEAN
  /\ destNames \in {{}, {<<"a">>}}
  /\ destFolders = <<>>
  /\ destFiles = <<>>
  /\ destinationFolder = FALSE
  /\ stack = <<>>
  /\ folderIdMap = <<>>
  /\ createdFiles = <<>>
  /\ success = TRUE
  /\ errors = <<>>
  /\ summary = [totalFiles |-> 0, totalSize |-> 0, folderCount |-> 0]
  /\ itemFailed = {}
  /\ thrown = {}
  /\ reportContent = {}

\* main.js:406-412, 524-530: a fresh node of folderStructure.
NewNode(name, id) == [name |-> name, id |-> id, subFolders |-> {}, files |-> {}]

\* Variant: the subFolders map is replaced by one holding only the new entry.
PutSubFolder_Replace(node, name, id) == [node EXCEPT !.subFolders = {<<name, id>>}]

\* main.js:532: currentStructure.subFolders[name] = newStructureNode.
PutSubFolder(node, name, id) == [node EXCEPT !.subFolders = Put(@, name, id)]

\* main.js:478, 559: currentStructure.files[name] = fileInfo.
PutFile(node, name, info) == [node EXCEPT !.files = Put(@, name, info)]

\* main.js:426, 483: createdFiles.reduce((sum, file) => sum + file.size, 0).
RECURSIVE SumSizes(_)
SumSizes(list) == IF list = <<>> THEN 0 ELSE Head(list).size + SumSizes(Tail(list))

\* The innermost frame, and the stack with field changes to it.
Top == stack[Len(stack)]
Pop == SubSeq(stack, 1, Len(stack) - 1)

\* main.js:518-520: a call of createFolderStructureRecursive for source folder
\* s and destination folder d, its iterator not yet advanced.
StructFrame(s, d) == [src |-> s, dst |-> d, todo |-> SubFoldersOf(source, s)]

\* main.js:542-543, 566: a call of copyFilesRecursive for source folder s,
\* destination folder d and the node n of folderStructure.
FileFrame(s, d, n) ==
  [src |-> s, dst |-> d, node |-> n,
   files |-> FilesOf(source, s), folders |-> SubFoldersOf(source, s)]

\* Variant: the catch block records the error but leaves success as it was.
CatchTop_KeepsSuccess(msg) ==
  /\ success' = success
  /\ errors' = Append(errors, msg)
  /\ stack' = <<>>
  /\ cpc' = "prepare"

\* main.js:418-422: the catch block of copyFolderStructure.
CatchTop(msg) ==
  /\ success' = FALSE
  /\ errors' = Append(errors, msg)
  /\ stack' = <<>>
  /\ cpc' = "prepare"

\* main.js:397-403, 418-422: fetching the source or the destination folder,
\* resolving the name or creating the root throws.
CopyRootFails ==
  /\ cpc = "start"
  /\ destinationFolder' \in BOOLEAN
  /\ CatchTop("root")
  /\ thrown' = thrown \cup {"root"}
  /\ UNCHANGED <<queueVars, rootVars, source, saveJsonOutput, destNames, destFolders, destFiles,
                 folderIdMap, createdFiles, summary, itemFailed, reportContent>>

\* main.js:397-415: the root is created under its unique name and
\* createFolderStructureRecursive is entered.
CopyRoot ==
  /\ cpc = "start"
  /\ LET mainFolderName ==
           GetUniqueFolderName(ChildNames, source.folders[1].name, FormatDate(now))
     IN /\ destFolders' = <<[name |-> mainFolderName, parent |-> 0, src |-> 1]>>
        /\ folderIdMap' = <<NewNode(mainFolderName, 1)>>
  /\ destinationFolder' = TRUE
  /\ stack' = <<StructFrame(1, 1)>>
  /\ cpc' = "structure"
  /\ UNCHANGED <<queueVars, rootVars, source, saveJsonOutput, destNames, destFiles,
                 createdFiles, success, errors, summary, itemFailed, thrown, reportContent>>

\* main.js:520-535: the iterator yields a subfolder (in any order), its
\* counterpart is created and recorded, and the recursion enters it.
StructCreate ==
  /\ cpc = "structure"
  /\ \E c \in Top.todo :
       LET id == Len(destFolders) + 1
           name == source.folders[c].name
       IN /\ destFolders' = Append(destFolders, [name |-> name, parent |-> Top.dst, src |-> c])
          /\ folderIdMap' =
               Append([folderIdMap EXCEPT ![Top.dst] = PutSubFolder(@, name, id)],
                      NewNode(name, id))
          /\ stack' = Append([stack EXCEPT ![Len(stack)].todo = @ \ {c}], StructFrame(c, id))
  /\ UNCHANGED <<queueVars, rootVars, cpc, source, saveJsonOutput, destNames, destFiles,
                 destinationFolder, createdFiles, success, errors, summary, itemFailed, thrown, reportContent>>

\* Variant: the failure of createFolder is recorded and the run goes on into
\* copyFilesRecursive.
StructFails_GoesOn ==
  /\ cpc = "structure"
  /\ Top.todo # {}
  /\ success' = FALSE
  /\ errors' = Append(errors, "createFolder")
  /\ stack' = <<FileFrame(1, 1, 1)>>
  /\ cpc' = "files"
  /\ thrown' = thrown \cup {"createFolder"}
  /\ UNCHANGED <<queueVars, rootVars, source, saveJsonOutput, destNames, destFolders, destFiles,
                 destinationFolder, folderIdMap, createdFiles, summary, itemFailed, reportContent>>

\* main.js:522, 418-422: createFolder throws; the exception leaves the
\* recursion and the try block.
StructFails ==
  /\ cpc = "structure"
  /\ Top.todo # {}
  /\ CatchTop("createFolder")
  /\ thrown' = thrown \cup {"createFolder"}
  /\ UNCHANGED <<queueVars, rootVars, source, saveJsonOutput, destNames, destFolders, destFiles,
                 destinationFolder, folderIdMap, createdFiles, summary, itemFailed, reportContent>>

\* main.js:520, 536-537, 415-416: the iterator is exhausted and the call
\* returns; when it was the outermost, copyFilesRecursive is entered.
StructReturn ==
  /\ cpc = "structure"
  /\ Top.todo = {}
  /\ IF Len(stack) = 1
       THEN cpc' = "files" /\ stack' = <<FileFrame(1, 1, 1)>>
       ELSE cpc' = cpc /\ stack' = Pop
  /\ UNCHANGED <<queueVars, rootVars, source, saveJsonOutput, destNames, destFolders, destFiles,
                 destinationFolder, folderIdMap, createdFiles, success, errors, summary,
                 itemFailed, thrown, reportContent>>

\* Variant: the path is the name of the folder itself.
GetFilePath_Leaf(folder) == destFolders[folder].name

\* main.js:586-626: the names of the folders from `folder` upwards are put in
\* front of the path for as long as the folder is in folderIdMap; a folder
\* without a parent in the map ends the walk, and the path is joined with '/'.
RECURSIVE GetFilePath(_)
GetFilePath(folder) ==
  IF folder \in DOMAIN folderIdMap
    THEN LET parent == destFolders[folder].parent
         IN IF parent \in DOMAIN folderIdMap
              THEN GetFilePath(parent) \o <<"/">> \o destFolders[folder].name
              ELSE destFolders[folder].name
    ELSE <<>>

\* main.js:548-557: the fileInfo of the copy with id `id`.
FileInfo(name, id, folderId, size) ==
  [name |-> name, id |-> id, path |-> GetFilePath(folderId), folderId |-> folderId,
   size |-> size]

\* main.js:544-560: the iterator yields a file (in any order), the file is
\* copied and recorded in the node and in the flat list.
FileCopy ==
  /\ cpc = "files"
  /\ \E f \in Top.files :
       LET id == Len(destFiles) + 1
           file == source.files[f]
           fileInfo == FileInfo(file.name, id, Top.dst, file.size)
       IN /\ destFiles' = Append(destFiles, [name |-> file.name, folder |-> Top.dst,
                                             src |-> f, size |-> file.size])
          /\ folderIdMap' = [folderIdMap EXCEPT ![Top.node] = PutFile(@, file.name, fileInfo)]
          /\ createdFiles' = Append(createdFiles, fileInfo)
          /\ stack' = [stack EXCEPT ![Len(stack)].files = @ \ {f}]
  /\ UNCHANGED <<queueVars, rootVars, cpc, source, saveJsonOutput, destNames, destFolders,
                 destinationFolder, success, errors, summary, itemFailed, thrown, reportContent>>

\* Variant: the exception of a failed copy is not caught at the item and ends
\* the try block of copyFolderStructure.
FileCopyFails_Fatal ==
  /\ cpc = "files"
  /\ \E f \in Top.files : itemFailed' = itemFailed \cup {f}
  /\ CatchTop("makeCopy")
  /\ thrown' = thrown \cup {"makeCopy"}
  /\ UNCHANGED <<queueVars, rootVars, source, saveJsonOutput, destNames, destFolders, destFiles,
                 destinationFolder, folderIdMap, createdFiles, summary, reportContent>>

\* main.js:546-563: makeCopy throws, or a call on the new copy (547-556)
\* throws after the copy was made; the catch logs it and the loop goes on.
FileCopyFails ==
  /\ cpc = "files"
  /\ \E f \in Top.files, made \in BOOLEAN :
       LET file == source.files[f] IN
       /\ destFiles' = IF made
                         THEN Append(destFiles, [name |-> file.name, folder |-> Top.dst,
                                                 src |-> f, size |-> file.size])
                         ELSE destFiles
       /\ itemFailed' = itemFailed \cup {f}
       /\ stack' = [stack EXCEPT ![Len(stack)].files = @ \ {f}]
  /\ thrown' = thrown \cup {"makeCopy"}
  /\ UNCHANGED <<queueVars, rootVars, cpc, source, saveJsonOutput, destNames, destFolders,
                 destinationFolder, folderIdMap, createdFiles, success, errors, summary, reportContent>>

\* Variant: the subfolders of the source are not descended into.
FileDescend_Skip ==
  /\ cpc = "files"
  /\ Top.files = {}
  /\ \E c \in Top.folders : stack' = [stack EXCEPT ![Len(stack)].folders = @ \ {c}]
  /\ UNCHANGED <<queueVars, rootVars, cpc, source, saveJsonOutput, destNames, destFolders,
                 destFiles, destinationFolder, folderIdMap, createdFiles, success, errors,
                 summary, itemFailed, thrown, reportContent>>

\* main.js:566-577: after the files, the iterator yields a subfolder; its
\* counterpart is the first folder of that name getFoldersByName returns, its
\* node the entry of that name in subFolders; without a counterpart the
\* subfolder is skipped.
FileDescend ==
  /\ cpc = "files"
  /\ Top.files = {}
  /\ \E c \in Top.folders :
       LET name == source.folders[c].name
           found == {d \in DOMAIN destFolders :
                       destFolders[d].parent = Top.dst /\ destFolders[d].name = name}
           rest == [stack EXCEPT ![Len(stack)].folders = @ \ {c}]
       IN IF found = {}
            THEN stack' = rest
            ELSE \E destSubfolder \in found :
                   stack' = Append(rest, FileFrame(c, destSubfolder,
                                                   Get(folderIdMap[Top.node].subFolders, name)))
  /\ UNCHANGED <<queueVars, rootVars, cpc, source, saveJsonOutput, destNames, destFolders,
                 destFiles, destinationFolder, folderIdMap, createdFiles, success, errors,
                 summary, itemFailed, thrown, reportContent>>

\* main.js:567, 577-578, 416: both iterators are exhausted and the call
\* returns; when it was the outermost, the try block is over.
FileReturn ==
  /\ cpc = "files"
  /\ Top.files = {} /\ Top.folders = {}
  /\ IF Len(stack) = 1
       THEN cpc' = "prepare" /\ stack' = <<>>
       ELSE cpc' = cpc /\ stack' = Pop
  /\ UNCHANGED <<queueVars, rootVars, source, saveJsonOutput, destNames, destFolders, destFiles,
                 destinationFolder, folderIdMap, createdFiles, success, errors, summary,
                 itemFailed, thrown, reportContent>>

\* Variant: the report is written whether or not it was asked for.
Prepare_AlwaysReport ==
  /\ cpc = "prepare"
  /\ summary' = [totalFiles |-> Len(createdFiles), totalSize |-> SumSizes(createdFiles),
                 folderCount |-> Len(folderIdMap)]
  /\ cpc' = IF destFolders # <<>> THEN "report" ELSE "returned"
  /\ UNCHANGED <<queueVars, rootVars, source, saveJsonOutput, destNames, destFolders, destFiles,
                 destinationFolder, stack, folderIdMap, createdFiles, success, errors,
                 itemFailed, thrown, reportContent>>

\* Variant: the destination folder is counted with the created folders.
Prepare_CountsDestination ==
  /\ cpc = "prepare"
  /\ summary' = [totalFiles |-> Len(createdFiles), totalSize |-> SumSizes(createdFiles),
                 folderCount |-> Len(folderIdMap) + 1]
  /\ cpc' = IF saveJsonOutput /\ destFolders # <<>> THEN "report" ELSE "returned"
  /\ UNCHANGED <<queueVars, rootVars, source, saveJsonOutput, destNames, destFolders, destFiles,
                 destinationFolder, stack, folderIdMap, createdFiles, success, errors,
                 itemFailed, thrown, reportContent>>

\* main.js:425-449, 455: returnData is put together; without a report to
\* write it is returned.
Prepare ==
  /\ cpc = "prepare"
  /\ summary' = [totalFiles |-> Len(createdFiles), totalSize |-> SumSizes(createdFiles),
                 folderCount |-> Len(folderIdMap)]
  /\ cpc' = IF saveJsonOutput /\ destFolders # <<>> THEN "report" ELSE "returned"
  /\ UNCHANGED <<queueVars, rootVars, source, saveJsonOutput, destNames, destFolders, destFiles,
                 destinationFolder, stack, folderIdMap, createdFiles, success, errors,
                 itemFailed, thrown, reportContent>>

\* main.js:432-439: a Drive call on destinationFolder or newFolder throws
\* outside every try block, and so does copyFolderStructure.
PrepareThrows ==
  /\ cpc = "prepare"
  /\ destinationFolder
  /\ cpc' = "threw"
  /\ thrown' = thrown \cup {"prepare"}
  /\ UNCHANGED <<queueVars, rootVars, source, saveJsonOutput, destNames, destFolders, destFiles,
                 destinationFolder, stack, folderIdMap, createdFiles, success, errors, summary,
                 itemFailed, reportContent>>

\* Variant: the catch block of the report records the error and leaves success.
CatchReport_KeepsSuccess ==
  /\ errors' = Append(errors, "Failed to save JSON report file")
  /\ success' = success
  /\ cpc' = "returned"

\* main.js:503-508: the catch block of the report.
CatchReport ==
  /\ errors' = Append(errors, "Failed to save JSON report file")
  /\ success' = FALSE
  /\ cpc' = "returned"

\* The placeholder file of main.js:463; '{}' has two bytes.
Placeholder == [name |-> JSON_REPORT_FILENAME, folder |-> 1, src |-> 0, size |-> 2]

\* main.js:463-474, 503-508: createFile throws, or a call on the placeholder
\* throws after it was created.
ReportCreateFails ==
  /\ cpc = "report"
  /\ \E made \in BOOLEAN :
       destFiles' = IF made THEN Append(destFiles, Placeholder) ELSE destFiles
  /\ CatchReport
  /\ thrown' = thrown \cup {"createFile"}
  /\ UNCHANGED <<queueVars, rootVars, source, saveJsonOutput, destNames, destFolders,
                 destinationFolder, stack, folderIdMap, createdFiles, summary, itemFailed, reportContent>>

\* main.js:463-485: the placeholder is created, its record (size 0) is put
\* into the root node and the flat list, and the summary is recomputed.
ReportCreate ==
  /\ cpc = "report"
  /\ LET id == Len(destFiles) + 1
         reportFileInfo == FileInfo(JSON_REPORT_FILENAME, id, 1, 0)
     IN /\ destFiles' = Append(destFiles, Placeholder)
        /\ folderIdMap' = [folderIdMap EXCEPT ![1] = PutFile(@, JSON_REPORT_FILENAME, reportFileInfo)]
        /\ createdFiles' = Append(createdFiles, reportFileInfo)
        /\ summary' = [summary EXCEPT !.totalFiles = Len(createdFiles) + 1,
                                      !.totalSize = SumSizes(createdFiles)]
  /\ cpc' = "report_write"
  /\ UNCHANGED <<queueVars, rootVars, source, saveJsonOutput, destNames, destFolders,
                 destinationFolder, stack, success, errors, itemFailed, thrown, reportContent>>

\* main.js:429-449: returnData, the object that is serialized (488, 512); its
\* folderStructure holds the nodes and their records as they are now.
ReturnData ==
  [success |-> success, errors |-> errors, summary |-> summary, folderStructure |-> folderIdMap]

\* main.js:488, 494: the length of the serialized returnData, which grows
\* with the records in it.
ContentSize == 2 + Len(folderIdMap) + Len(createdFiles)

\* Variant: the content is written and the record keeps its provisional size.
ReportWrite_NoPatch ==
  /\ cpc = "report_write"
  /\ destFiles' = [destFiles EXCEPT ![Len(destFiles)].size = ContentSize]
  /\ reportContent' = {ReturnData}
  /\ cpc' = "returned"
  /\ UNCHANGED <<queueVars, rootVars, source, saveJsonOutput, destNames, destFolders,
                 destinationFolder, stack, folderIdMap, createdFiles, summary, success, errors,
                 itemFailed, thrown>>

\* Variant: the size of the file is put into the record and the summary
\* keeps the total computed with the provisional size.
ReportWrite_StaleTotal ==
  /\ cpc = "report_write"
  /\ LET id == Len(destFiles)
         finalFileSize == ContentSize
         reportFileInfo == FileInfo(JSON_REPORT_FILENAME, id, 1, finalFileSize)
     IN /\ destFiles' = [destFiles EXCEPT ![id].size = finalFileSize]
        /\ folderIdMap' = [folderIdMap EXCEPT ![1] = PutFile(@, JSON_REPORT_FILENAME, reportFileInfo)]
        /\ createdFiles' = [createdFiles EXCEPT ![Len(createdFiles)] = reportFileInfo]
  /\ reportContent' = {ReturnData}
  /\ cpc' = "returned"
  /\ UNCHANGED <<queueVars, rootVars, source, saveJsonOutput, destNames, destFolders,
                 destinationFolder, stack, summary, success, errors, itemFailed, thrown>>

\* main.js:488-501: the content is written, and the size of the file is put
\* into the report's record (one object, in the node and in the flat list)
\* and into the summary.
ReportWrite ==
  /\ cpc = "report_write"
  /\ LET id == Len(destFiles)
         finalFileSize == ContentSize
         reportFileInfo == FileInfo(JSON_REPORT_FILENAME, id, 1, finalFileSize)
     IN /\ destFiles' = [destFiles EXCEPT ![id].size = finalFileSize]
        /\ folderIdMap' = [folderIdMap EXCEPT ![1] = PutFile(@, JSON_REPORT_FILENAME, reportFileInfo)]
        /\ createdFiles' = [createdFiles EXCEPT ![Len(createdFiles)] = reportFileInfo]
        /\ summary' = [summary EXCEPT !.totalSize = SumSizes(createdFiles')]
  /\ reportContent' = {ReturnData}
  /\ cpc' = "returned"
  /\ UNCHANGED <<queueVars, rootVars, source, saveJsonOutput, destNames, destFolders,
                 destinationFolder, stack, success, errors, itemFailed, thrown>>

\* main.js:491-494, 503-508: setContent throws and the file keeps the
\* placeholder's content, or the content is written and getSize throws.
ReportWriteFails ==
  /\ cpc = "report_write"
  /\ \E written \in BOOLEAN :
       IF written
         THEN /\ destFiles' = [destFiles EXCEPT ![Len(destFiles)].size = ContentSize]
              /\ reportContent' = {ReturnData}
              /\ thrown' = thrown \cup {"getSize"}
         ELSE /\ UNCHANGED <<destFiles, reportContent>>
              /\ thrown' = thrown \cup {"setContent"}
  /\ CatchReport
  /\ UNCHANGED <<queueVars, rootVars, source, saveJsonOutput, destNames, destFolders,
                 destinationFolder, stack, folderIdMap, createdFiles, summary, itemFailed>>

TreeNext ==
  \/ CopyRootFails
  \/ CopyRoot
  \/ StructCreate
  \/ StructFails
  \/ StructReturn
  \/ FileCopy
  \/ FileCopyFails
  \/ FileDescend
  \/ FileReturn
  \/ Prepare
  \/ PrepareThrows
  \/ ReportCreateFails
  \/ ReportCreate
  \/ ReportWrite
  \/ ReportWriteFails

TreeSpec == TreeInit /\ [][TreeNext]_vars

\* ======================================== copyFolderStructure: the root name
\* Several calls of copyFolderStructure into one destination folder, each as
\* far as the creation of its root (main.js:397-404), the name resolution
\* and the creation being separate steps of separate executions.
\* What is not a variable of these calls stays as it is.
treeLocals == <<cpc, source, saveJsonOutput, destFiles, destinationFolder, stack,
                folderIdMap, createdFiles, success, errors, summary, itemFailed, thrown, reportContent>>

\* The names asked for (newFolderName, or the source folder's name).
Bases == {<<"a">>, <<"b">>}
\* Names the folders already in the destination may have.
PreNames ==
  {<<"a">>, Stamped(<<"a">>, 0), Stamped(<<"a">>, 1),
   Numbered(<<"a">>, 0, 1), Numbered(<<"a">>, 1, 1)}

RootInit ==
  /\ QueueInit
  /\ cpc = "off"
  /\ source = [folders |-> <<>>, files |-> <<>>]
  /\ saveJsonOutput = FALSE
  /\ destNames \in SUBSET PreNames
  /\ destFolders = <<>>
  /\ destFiles = <<>>
  /\ destinationFolder = FALSE
  /\ stack = <<>>
  /\ folderIdMap = <<>>
  /\ createdFiles = <<>>
  /\ success = TRUE
  /\ errors = <<>>
  /\ summary = [totalFiles |-> 0, totalSize |-> 0, folderCount |-> 0]
  /\ itemFailed = {}
  /\ thrown = {}
  /\ reportContent = {}
  /\ now = 0
  /\ rpc = [c \in Calls |-> "start"]
  /\ rloc = [c \in Calls |-> NoLocals]

\* Half a second passes.
ClockTick ==
  /\ now < MaxClock
  /\ now' = now + 1
  /\ UNCHANGED <<queueVars, treeLocals, destNames, destFolders, rpc, rloc>>

\* main.js:397-401: call c fetches the folders and resolves its root name
\* against the folders the destination holds now.
RootResolve(c) ==
  /\ rpc[c] = "start"
  /\ \E base \in Bases :
       rloc' = [rloc EXCEPT ![c] =
                  [base |-> base, at |-> now,
                   name |-> GetUniqueFolderName(ChildNames, base, FormatDate(now)),
                   root |-> 0, seen |-> ChildNames,
                   earlier |-> {d \in Calls : rpc[d] = "done"}]]
  /\ rpc' = [rpc EXCEPT ![c] = "create"]
  /\ UNCHANGED <<queueVars, treeLocals, destNames, destFolders, now>>

\* main.js:397-401, 418-422: a Drive call of the resolution throws.
RootResolveFails(c) ==
  /\ rpc[c] = "start"
  /\ rpc' = [rpc EXCEPT ![c] = "failed"]
  /\ UNCHANGED <<queueVars, treeLocals, destNames, destFolders, now, rloc>>

\* main.js:403-404: createFolder makes a new folder of the resolved name in
\* the destination, whatever the destination holds by now.
RootCreate(c) ==
  /\ rpc[c] = "create"
  /\ destFolders' = Append(destFolders, [name |-> rloc[c].name, parent |-> 0, src |-> 1])
  /\ rloc' = [rloc EXCEPT ![c].root = Len(destFolders) + 1]
  /\ rpc' = [rpc EXCEPT ![c] = "done"]
  /\ UNCHANGED <<queueVars, treeLocals, destNames, now>>

\* main.js:403, 418-422: createFolder throws.
RootCreateFails(c) ==
  /\ rpc[c] = "create"
  /\ rpc' = [rpc EXCEPT ![c] = "failed"]
  /\ UNCHANGED <<queueVars, treeLocals, destNames, destFolders, now, rloc>>

RootNext ==
  \/ ClockTick
  \/ \E c \in Calls : RootResolve(c)
  \/ \E c \in Calls : RootResolveFails(c)
  \/ \E c \in Calls : RootCreate(c)
  \/ \E c \in Calls : RootCreateFails(c)

RootSpec == RootInit /\ [][RootNext]_vars

\* ================================================================ properties
TickExecs == {TickExec(t) : t \in Ticks}
\* The jobIds in the persisted queue.
Queued == Range(ParseQueue(queueJson))
\* Job j has been returned by a dequeue.
Dequeued(j) == j \in Range(deqLog)
NotDequeued(j) == ~Dequeued(j)
\* Execution e has ended.
Ended(e) == pc[e] \in {"done", "crashed"}
\* The ticks that claimed job j.
Claimers(j) == {e \in TickExecs : job[e] = j}
\* Some POST for job j failed to be delivered.
SomePostFailed(j) == \E i \in DOMAIN posts[j] : ~posts[j][i].delivered

\* C1: every jobId is returned by getNextJobFromQueue at most once: no two
\* ticks hold the same job, and a jobId that has been dequeued is not in the
\* persisted queue again, whatever became of the job.
C1_DequeuedAtMostOnce ==
  /\ \A i \in DOMAIN deqLog : \A k \in DOMAIN deqLog : deqLog[i] = deqLog[k] => i = k
  /\ \A e1 \in TickExecs : \A e2 \in TickExecs :
       (job[e1] # NoJob /\ job[e1] = job[e2]) => e1 = e2
  /\ \A j \in Reqs : Dequeued(j) => j \notin Queued

\* C1 witness: two ticks have claimed the two jobs and ended, one of them after
\* a failed callback, and the queue is empty.
C1_Witness ==
  /\ Len(deqLog) = 2
  /\ \A e \in TickExecs : Ended(e) /\ job[e] # NoJob
  /\ \E j \in Reqs : SomePostFailed(j)
  /\ Queued = {}

\* C2: no queue update is lost.  The persisted queue is the sequence of the
\* persisted enqueues without the jobIds already dequeued (so each enqueued
\* jobId is there exactly once until it is dequeued), and an execution that is
\* about to write the queue property holds the script lock.
C2_NoLostUpdate ==
  /\ ParseQueue(queueJson) = SelectSeq(enqLog, NotDequeued)
  /\ \A e \in Execs : pc[e] \in {"add_set", "deq_set"} => lock = e

\* C2 witness: two jobs were enqueued, one has been dequeued and the other is
\* what the queue holds.
C2_Witness ==
  /\ Len(enqLog) = 2
  /\ Len(deqLog) = 1
  /\ ParseQueue(queueJson) = <<enqLog[2]>>

\* C7: jobs are claimed in FIFO order: when b is dequeued, every job whose
\* enqueue had returned before b's enqueue began has been dequeued before it.
C7_Fifo ==
  \A i \in DOMAIN deqLog :
    pred[deqLog[i]] \subseteq {deqLog[k] : k \in 1..(i - 1)}

\* C7 witness: two jobs were dequeued, the second enqueued after the first's
\* enqueue had returned.
C7_Witness ==
  /\ Len(deqLog) = 2
  /\ deqLog[1] \in pred[deqLog[2]]

\* The callback URLs job j was submitted with.
CallbackUrls(j) == {d.callbackUrl : d \in submitted[j]}

\* C3: the jobId of an asynchronous submission is in at most one callback
\* POST, and that POST goes to the job's callbackUrl; once the claiming tick has
\* ended it is in exactly one when the tick found the payload, and in none when
\* the payload was gone by the time the tick looked for it.
C3_OneCallback ==
  /\ \A j \in Reqs : Len(posts[j]) <= 1
  /\ \A j \in Reqs : \A i \in DOMAIN posts[j] :
       posts[j][i].payload.jobId = j /\ posts[j][i].url \in CallbackUrls(j)
  /\ \A j \in Reqs : posts[j] # <<>> => lookup[j] = "found"
  /\ \A e \in TickExecs :
       (Ended(e) /\ job[e] # NoJob) => (Len(posts[job[e]]) = 1 <=> lookup[job[e]] = "found")

\* C3 witness: both jobs were claimed and the ticks ended; one job has its one
\* callback, the other lost its payload and has none.
C3_Witness ==
  /\ \A e \in TickExecs : Ended(e) /\ job[e] # NoJob
  /\ \E j \in Reqs : Len(posts[j]) = 1 /\ lookup[j] = "found"
  /\ \E j \in Reqs : posts[j] = <<>> /\ lookup[j] = "missing"

\* C4: a callback envelope with success = true is sent only for a job whose
\* ReplicationResult has success = true; a job whose replication failed gets
\* an envelope with success = false.
C4_FailedJobEnvelope ==
  \A j \in Reqs : \A i \in DOMAIN posts[j] :
    posts[j][i].payload.success =>
      (posts[j][i].payload.kind = "data" /\ posts[j][i].payload.dataSuccess)

\* C5: a synchronous response has success = true only when the replication
\* succeeded; a replication that failed is answered with success = false.
C5_SyncEnvelope ==
  \A r \in Reqs : mode[r] = "sync" =>
    \A x \in resp[r] : x.success => (x.kind = "data" /\ x.dataSuccess)

\* C6: a request with a callbackUrl creates nothing on the request path and,
\* when accepted, is answered with its jobId after its payload was stored and
\* its jobId enqueued; a request without one never touches the queue or the
\* payload store and is answered with the result only once the copy is over.
C6_Routing ==
  \A r \in Reqs :
    /\ mode[r] = "async" =>
         /\ \A k \in Kinds : <<ReqExec(r), k>> \notin drive
         /\ pc[ReqExec(r)] \notin {"rate_put", "copy", "copy_done"}
         /\ \A x \in resp[r] : x.success =>
              /\ x.kind = "job" /\ x.jobId = r
              /\ submitted[r] # {}
              /\ r \in Range(enqLog)
    /\ mode[r] = "sync" =>
         /\ r \notin Range(enqLog) /\ r \notin Queued
         /\ submitted[r] = {} /\ cache[r] = {}
         /\ pc[ReqExec(r)] \notin {"add_wait", "add_set"}
         /\ pc[ReqExec(r)] \in {"rate_put", "copy", "copy_done"} => resp[r] = {}
         /\ \A x \in resp[r] : x.success => x.kind = "data"

\* C6 witness: one request was answered with its jobId, the other with the
\* result of a copy that created the destination root.
C6_Witness ==
  /\ \E r \in Reqs : mode[r] = "async" /\ (\E x \in resp[r] : x.kind = "job")
  /\ \E r \in Reqs : /\ mode[r] = "sync" /\ (\E x \in resp[r] : x.kind = "data")
                     /\ <<ReqExec(r), "root">> \in drive

\* C8: when a tick that found its job's payload has ended, the payload entry
\* is gone, whether the copy returned or threw and whether the callback was
\* delivered; and a payload entry, while present, is the one doPost stored.
C8_PayloadRemoved ==
  /\ \A e \in TickExecs :
       (Ended(e) /\ job[e] # NoJob /\ lookup[job[e]] = "found") => cache[job[e]] = {}
  /\ \A j \in Reqs : cache[j] \subseteq submitted[j]

\* C8 witness: a tick ended after a copy that threw and an error callback that
\* was not delivered.
C8_Witness ==
  \E e \in TickExecs :
    /\ Ended(e) /\ job[e] # NoJob /\ lookup[job[e]] = "found"
    /\ \E i \in DOMAIN posts[job[e]] :
         posts[job[e]][i].payload.kind = "error" /\ ~posts[job[e]][i].delivered

\* C9: a tick that dequeues a jobId whose payload is missing discards it: the
\* tick ends there, the jobId is out of the queue, the tick created nothing on
\* the destination and no callback was sent for the jobId.
C9_MissingPayloadDiscarded ==
  \A e \in TickExecs :
    (job[e] # NoJob /\ lookup[job[e]] = "missing") =>
      /\ pc[e] = "done"
      /\ job[e] \notin Queued
      /\ \A k \in Kinds : <<e, k>> \notin drive
      /\ posts[job[e]] = <<>>

\* C9 witness: a tick dequeued a job whose payload had expired.
C9_Witness ==
  \E e \in TickExecs : job[e] # NoJob /\ lookup[job[e]] = "missing" /\ pc[e] = "done"

\* C10: a processed job gets a single callback POST and no retry: when the
\* POST failed, the tick still ends normally, no second POST is made, the
\* payload is removed by the end of the tick and the jobId is not in the queue.
C10_SinglePostNoRetry ==
  \A e \in TickExecs : job[e] # NoJob =>
    /\ pc[e] \notin {"finally_throw", "crashed"}
    /\ Len(posts[job[e]]) <= 1
    /\ (pc[e] \in {"finally", "done"} /\ lookup[job[e]] = "found") => Len(posts[job[e]]) = 1
    /\ SomePostFailed(job[e]) =>
         /\ pc[e] \in {"finally", "done"}
         /\ job[e] \notin Queued
         /\ pc[e] = "done" => cache[job[e]] = {}

\* C10 witness: a tick ended after its one callback POST failed.
C10_Witness ==
  \E e \in TickExecs :
    /\ pc[e] = "done" /\ job[e] # NoJob
    /\ Len(posts[job[e]]) = 1 /\ SomePostFailed(job[e])

\* The error doPost answers when addJobToQueue threw (main.js:247, 167-174).
QueueError == ErrorResponse("Failed to queue job, could not acquire lock.")

\* C11: when addJobToQueue's waitLock times out, the step leaves the persisted
\* queue as it was, the jobId is never enqueued by that call, and the
\* submission is answered {success: false, error}, not with a jobId.
C11_LockTimeoutIsHardError ==
  /\ [](\A r \in Reqs : waited[ReqExec(r)] = "timeout" =>
         /\ pc[ReqExec(r)] = "done"
         /\ resp[r] = {QueueError}
         /\ r \notin Range(enqLog)
         /\ r \notin Queued)
  /\ [][\A r \in Reqs :
         (waited[ReqExec(r)] # "timeout" /\ waited'[ReqExec(r)] = "timeout") =>
           queueJson' = queueJson]_vars

\* C11 witness: a submission timed out on the lock while the queue held a job;
\* it was answered with the error and its payload is still cached.
C11_Witness ==
  \E r \in Reqs :
    /\ waited[ReqExec(r)] = "timeout" /\ resp[r] = {QueueError}
    /\ Queued # {} /\ cache[r] # {}

\* C12: an execution holds the script lock only inside its addJobToQueue or
\* getNextJobFromQueue call, between the acquire and the persist; once the
\* call has returned or thrown, also after a failure in between, the lock is
\* not the caller's.  Nobody is blocked for good: the holder of the lock can
\* always take its next step, and that step releases the lock.
C12_LockReleased ==
  /\ [](\A e \in Execs :
         /\ lock = e => (pc[e] \in {"add_set", "deq_set"} /\ waited[e] = "acquired")
         /\ (waited[e] # "none" /\ pc[e] \notin {"add_set", "deq_set"}) => lock # e
         /\ lock = e => ENABLED Proceed(e)
         /\ lock \in Execs \cup {Free})
  /\ [][\A e \in Execs : (lock = e /\ pc'[e] # pc[e]) => lock' # e]_vars

\* C12 witness: a submission acquired the lock, its setProperty threw, it was
\* answered with the error, and another execution holds the lock now.
C12_Witness ==
  \E r \in Reqs :
    /\ waited[ReqExec(r)] = "acquired" /\ resp[r] = {QueueError}
    /\ lock \in Execs \ {ReqExec(r)}

\* What the r-th request left behind on the request path: nothing.
NoTrace(r) ==
  /\ job[ReqExec(r)] = NoJob
  /\ submitted[r] = {} /\ cache[r] = {}
  /\ r \notin Range(enqLog) /\ r \notin Queued
  /\ \A k \in Kinds : <<ReqExec(r), k>> \notin drive
  /\ waited[ReqExec(r)] = "none"
\* The r-th doPost returns in this step.
Returns(r) == resp[r] = {} /\ resp'[r] # {}

\* C24: a request whose apiKey is missing or wrong is rejected in its first
\* step with the Unauthorized error, and nothing has happened on its behalf:
\* no rate-limit timestamp or payload written, no queue access, no Drive call.
C24_UnauthorizedNoEffect ==
  /\ [](\A r \in Reqs : asked[r].fault = "badkey" =>
         /\ pc[ReqExec(r)] = "done"
         /\ resp[r] = {ErrorResponse("Unauthorized. Invalid API key.")}
         /\ NoTrace(r)
         /\ r \notin recent
         /\ ~asked[r].fetched)
  /\ [][\A r \in Reqs :
         (Returns(r) /\ asked'[r].fault = "badkey") =>
           /\ pc[ReqExec(r)] = "idle"
           /\ UNCHANGED <<lock, queueJson, cache, lastExecution, drive, posts, recent>>]_vars

\* C24 witness: a request with a wrong apiKey was rejected while the queue
\* held another request's job.
C24_Witness ==
  \E r \in Reqs :
    /\ asked[r].fault = "badkey" /\ pc[ReqExec(r)] = "done"
    /\ resp[r] = {ErrorResponse("Unauthorized. Invalid API key.")}
    /\ Queued # {}

\* The requests validateRequest rejects for their ids, and the rate-limited.
IdFaults == {"missing", "badid", "noaccess"}
RateLimited(r) == resp[r] = {ErrorResponse("Rate limit exceeded")}

\* C25: a request rejected for missing or malformed ids, for a folder that
\* cannot be reached, or by the rate limit ends with the error and without a
\* folder, file, payload or queue entry made for it, and the rejecting step
\* leaves destination, payload store and queue as they were; for missing or
\* malformed ids no Drive call was made with them.
C25_RejectedBeforeMutation ==
  /\ [](\A r \in Reqs :
         /\ asked[r].fault \in IdFaults =>
              /\ pc[ReqExec(r)] \in {"rate_put", "done"}
              /\ pc[ReqExec(r)] = "done" =>
                   \/ resp[r] = {ErrorResponse(PostRateError([fault |-> asked[r].fault]))}
                   \/ RateLimited(r)
              /\ NoTrace(r)
              /\ asked[r].fault \in {"missing", "badid"} => ~asked[r].fetched
         /\ RateLimited(r) => (NoTrace(r) /\ ~asked[r].fetched))
  /\ [][\A r \in Reqs :
         (Returns(r) /\ (asked'[r].fault \in IdFaults \/ RateLimited(r)')) =>
           UNCHANGED <<lock, queueJson, cache, drive, posts>>]_vars

\* C25 witness: one request was rejected for malformed ids after it had
\* passed the rate limit, another for a folder it could not reach.
C25_Witness ==
  /\ \E r \in Reqs : /\ asked[r].fault = "badid" /\ mode[r] = "sync"
                     /\ pc[ReqExec(r)] = "done" /\ ~RateLimited(r)
  /\ \E r \in Reqs : /\ asked[r].fault = "noaccess" /\ asked[r].fetched
                     /\ pc[ReqExec(r)] = "done"

\* C26: of the synchronous requests of one caller, at most one passes
\* checkRateLimit within one second, also when they run concurrently; a
\* rate-limited request is answered {success: false, error} and is not among
\* the admitted.
C26_OneAdmittedPerWindow ==
  /\ Cardinality(recent) <= 1
  /\ \A r \in Reqs : RateLimited(r) => (r \notin recent /\ mode[r] = "sync")

\* C27: every doPost that has ended has returned one envelope: success true
\* with the data or a jobId, or success false with an error; no failure, of
\* the parse, the key, the rate limit, the validation, Drive, the cache, the
\* lock or the queue, ends a doPost without one.
C27_AlwaysEnvelope ==
  \A r \in Reqs :
    /\ pc[ReqExec(r)] # "crashed"
    /\ pc[ReqExec(r)] # "done" => resp[r] = {}
    /\ pc[ReqExec(r)] = "done" =>
         \E x \in resp[r] :
           /\ resp[r] = {x}
           /\ x.success \in BOOLEAN
           /\ x.success => \/ x.kind = "data"
                           \/ x.kind = "job" /\ x.jobId # NoJob
           /\ ~x.success => (x.kind = "error" /\ x.error # "ok")

\* C27 witness: one doPost answered a cache failure, another a copy that
\* threw, both with an error envelope.
C27_Witness ==
  /\ \E r \in Reqs : resp[r] = {CacheError}
  /\ \E r \in Reqs : resp[r] = {ErrorResponse("copy failed")}

\* The executions between acquire and release.
InCritical == {e \in Execs : pc[e] \in {"add_set", "deq_set"}}

\* C29: at most one execution is between acquire and release, it is the
\* holder of the lock, the queue property is read and written by the holder
\* only, and the releaseLock of an execution whose waitLock timed out leaves
\* the lock with its holder.
C29_MutualExclusion ==
  /\ [](/\ Cardinality(InCritical) <= 1
        /\ \A e \in Execs : (e \in InCritical \/ lq[e] # <<>>) => lock = e)
  /\ [][/\ queueJson' # queueJson => (lock \in InCritical /\ pc'[lock] # pc[lock])
        /\ \A e \in Execs : lq'[e] # lq[e] => (lock' = e \/ lock = e)
        /\ \A e \in Execs :
             (waited[e] # "timeout" /\ waited'[e] = "timeout") =>
               (lock \in Execs \ {e} /\ lock' = lock)]_vars

\* C29 witness: an execution timed out on the lock and returned while the
\* holder is still between acquire and release.
C29_Witness ==
  \E e \in Execs :
    /\ waited[e] = "timeout" /\ pc[e] = "done"
    /\ lock \in InCritical

\* The ticks that were handed a job.
Served == {e \in TickExecs : job[e] # NoJob}
\* Tick e is past its copy, or was past its lookup without one.
PastCopy(e) == pc[e] \in {"copy_done", "finally", "finally_throw", "done", "crashed"}

\* C30: a tick dequeues at most once and copies at most once: there are as
\* many dequeues as ticks with a job, a tick keeps the job it was handed, a
\* step shortens the queue by at most one, a tick past its copy never copies
\* or dequeues again, and a tick whose job had no payload is over.
C30_OneJobPerTick ==
  /\ [](/\ Len(deqLog) = Cardinality(Served)
        /\ \A e \in Served : lookup[job[e]] = "missing" => pc[e] = "done")
  /\ [][/\ Len(deqLog') <= Len(deqLog) + 1
        /\ Len(ParseQueue(queueJson')) >= Len(ParseQueue(queueJson)) - 1
        /\ \A e \in Served : job'[e] = job[e]
        /\ \A e \in TickExecs :
             PastCopy(e) => pc'[e] \notin {"idle", "deq_set", "lookup", "copy"}]_vars

\* C30 witness: a tick whose job had no payload is over and the queue still
\* holds a job.
C30_Witness ==
  \E e \in Served : pc[e] = "done" /\ lookup[job[e]] = "missing" /\ Queued # {}

\* Job j is over: looked up, its payload gone, its callback attempted if
\* there was a payload, and no tick at work on it.
Discarded(j) ==
  /\ lookup[j] # "none"
  /\ cache[j] = {}
  /\ lookup[j] = "found" => posts[j] # <<>>
  /\ \A e \in TickExecs : job[e] = j => Ended(e)

\* C28: with a trigger that keeps firing, lock acquisitions that eventually
\* succeed and copies that terminate, every job whose enqueue was persisted
\* is eventually dequeued, every dequeued job is eventually over (payload
\* removed, callback attempted if the payload was found), and once the
\* submissions have stopped the queue becomes and stays empty.
C28_AsyncLiveness ==
  /\ \A j \in Reqs : (j \in Range(enqLog)) ~> Dequeued(j)
  /\ \A j \in Reqs : Dequeued(j) ~> Discarded(j)
  /\ <>[](Queued = {})

\* C28 witness: two jobs were accepted, a tick timed out on the lock, both
\* jobs were dequeued and are over, one with a callback and one without.
C28_Witness ==
  /\ Len(enqLog) = 2 /\ Len(deqLog) = 2 /\ Queued = {}
  /\ \A j \in Reqs : Discarded(j)
  /\ \E j \in Reqs : lookup[j] = "found"
  /\ \E j \in Reqs : lookup[j] = "missing"

\* Tick e takes a step and has no job after it.
StepWithoutJob(e) == pc'[e] # pc[e] /\ job'[e] = NoJob

\* C31: a tick whose dequeue yields no job (queue unset or empty, lock not
\* acquired, or the write of the dequeue failed) leaves the persisted queue,
\* the payload store and the destination as they were and sends no
\* callback; it ends without a job, a run or the lock.
C31_NoJobNoEffect ==
  /\ [](\A e \in TickExecs :
         (Ended(e) /\ job[e] = NoJob) =>
           /\ \A k \in Kinds : <<e, k>> \notin drive
           /\ run[e] = NoRun /\ lq[e] = <<>>
           /\ lock # e)
  /\ [][\A e \in TickExecs :
         StepWithoutJob(e) => UNCHANGED <<queueJson, cache, drive, posts, deqLog, lookup>>]_vars

\* C31 witness: the first tick timed out on the lock and ended without a
\* job, and the job then enqueued was claimed by the second tick.
C31_Witness ==
  /\ waited[TickExec(1)] = "timeout" /\ pc[TickExec(1)] = "done" /\ job[TickExec(1)] = NoJob
  /\ job[TickExec(2)] # NoJob

\* C32 as claimed: when a callback POST is issued for a job, the payload of
\* the job is already absent from the payload store.
C32_PayloadGoneAtCallback ==
  [][\A j \in Reqs : posts'[j] # posts[j] => cache[j] = {}]_vars

\* C32: the callback is dispatched first and the payload is removed
\* afterwards: the step that issues the POST leaves the payload store as it
\* is, and when the finally block is about to remove the payload the POST
\* has been issued.
C32_CallbackBeforeRemoval ==
  /\ [](\A e \in TickExecs :
         pc[e] \in {"finally", "finally_throw"} => posts[job[e]] # <<>>)
  /\ [][\A j \in Reqs : posts'[j] # posts[j] => cache' = cache]_vars
  /\ [][\A e \in TickExecs :
         (pc[e] \in {"finally", "finally_throw"} /\ pc'[e] # pc[e]) => cache'[job[e]] = {}]_vars

\* C32 witness: the POST of a job has been issued and the payload of the job
\* is still in the store.
C32_Witness ==
  \E e \in TickExecs :
    /\ pc[e] = "finally" /\ posts[job[e]] # <<>>
    /\ cache[job[e]] # {}

\* The r-th request was asynchronous and was answered with a failure.
AsyncFailed(r) ==
  /\ mode[r] = "async"
  /\ \E x \in resp[r] : ~x.success

\* C38: after an asynchronous submission that was answered with a failure,
\* no payload entry of its jobId is in the payload store and its jobId is
\* not in the queue.
C38_NoOrphanPayload ==
  \A r \in Reqs : AsyncFailed(r) => (cache[r] = {} /\ r \notin Queued)

\* C40: a jobId is appended to the persisted queue only after its payload
\* was stored, and a payload leaves the store only by expiry or in the
\* finally block of the tick that found it; so a job whose payload was
\* missing at the lookup had it stored and lost it by expiry.
C40_PayloadBeforeQueue ==
  /\ [](/\ \A j \in Queued : submitted[j] # {}
        /\ \A e \in Execs : \A i \in DOMAIN lq[e] : submitted[lq[e][i]] # {}
        /\ \A j \in Reqs : lookup[j] = "missing" => (submitted[j] # {} /\ cache[j] = {}))
  /\ [][/\ \A j \in Queued' \ Queued : submitted[j] # {}
        /\ \A j \in Reqs :
             (cache[j] # {} /\ cache'[j] = {}) => (lookup[j] = "found" \/ pc' = pc)
        /\ \A j \in Reqs :
             (lookup[j] = "none" /\ lookup'[j] = "missing") => submitted[j] # {}]_vars

\* C40 witness: a job was enqueued, its payload expired, and the tick that
\* dequeued it found no payload.
C40_Witness ==
  \E j \in Reqs :
    /\ lookup[j] = "missing" /\ submitted[j] # {} /\ Dequeued(j)

\* ------------------------------------------------ properties of TreeSpec
\* The nodes of folderStructure: those reachable from the root's node.
RECURSIVE Reach(_)
Reach(id) == {id} \cup UNION {Reach(p[2]) : p \in folderIdMap[id].subFolders}
StructureNodes == IF folderIdMap = <<>> THEN {} ELSE Reach(1)
\* The item records in folderStructure.
StructureFiles == UNION {{p[2] : p \in folderIdMap[d].files} : d \in StructureNodes}
RECURSIVE CountFiles(_)
CountFiles(nodes) ==
  IF nodes = {} THEN 0
  ELSE LET d == CHOOSE x \in nodes : TRUE
       IN Cardinality(folderIdMap[d].files) + CountFiles(nodes \ {d})
\* The source file a record stands for (0 for the report).
SourceOf(info) == destFiles[info.id].src
\* No two folders, or no two files, of one source folder share a name.
UniqueFolderNames ==
  \A i \in DOMAIN source.folders : \A k \in DOMAIN source.folders :
    (i # k /\ source.folders[i].parent = source.folders[k].parent) =>
      source.folders[i].name # source.folders[k].name
UniqueFileNames ==
  \A i \in DOMAIN source.files : \A k \in DOMAIN source.files :
    (i # k /\ source.files[i].folder = source.files[k].folder) =>
      source.files[i].name # source.files[k].name
\* The try block failed at the root, or at a subfolder.
RootFailed == "root" \in Range(errors)
StructureFailed == "createFolder" \in Range(errors)
ReportFailed == "Failed to save JSON report file" \in Range(errors)

\* C13: after a structure phase without failure over a source whose sibling
\* folders have distinct names, whatever the iteration order was,
\* folderStructure has exactly one node per source folder, the root included,
\* and the subFolders of each node are keyed by the names of the source
\* folder's subfolders and lead to their nodes.
C13_StructureIsomorphic ==
  (cpc \in {"files", "prepare", "report", "report_write", "returned"}
     /\ ~RootFailed /\ ~StructureFailed /\ UniqueFolderNames) =>
    /\ Cardinality(StructureNodes) = Len(source.folders)
    /\ {destFolders[d].src : d \in StructureNodes} = DOMAIN source.folders
    /\ \A d \in StructureNodes :
         /\ folderIdMap[d].id = d
         /\ d # 1 => folderIdMap[d].name = source.folders[destFolders[d].src].name
         /\ {<<p[1], destFolders[p[2]].src>> : p \in folderIdMap[d].subFolders}
              = {<<source.folders[c].name, c>> : c \in SubFoldersOf(source, destFolders[d].src)}

\* C13 witness: a returned run over a root with two subfolders of different
\* names, three nodes in folderStructure.
C13_Witness ==
  /\ cpc = "returned" /\ success /\ UniqueFolderNames
  /\ Cardinality(SubFoldersOf(source, 1)) = 2
  /\ Cardinality(StructureNodes) = 3

\* C14: in every returned result over a source whose sibling files have
\* distinct names, summary.totalFiles is the length of the flat list and the
\* number of item records in folderStructure, the report's record included.
C14_TotalFiles ==
  (cpc = "returned" /\ UniqueFileNames) =>
    /\ summary.totalFiles = Len(createdFiles)
    /\ summary.totalFiles = CountFiles(StructureNodes)

\* C15: once createFolder has failed in the structure phase the traversal is
\* over (some source folder has no counterpart, no file is copied), the result
\* has success = false and the failure in errors, and the folders created
\* before the failure stay as they are: none is removed or changed.
C15_StructureFailure ==
  /\ [](StructureFailed =>
         /\ ~success
         /\ cpc \notin {"start", "structure", "files"}
         /\ stack = <<>>
         /\ Len(destFolders) < Len(source.folders)
         /\ createdFiles = <<>> \/ cpc \in {"report_write", "returned"}
         /\ \A i \in DOMAIN destFiles : destFiles[i].src = 0)
  /\ [][/\ \A i \in DOMAIN destFolders :
            i \in DOMAIN destFolders' /\ destFolders'[i] = destFolders[i]
        /\ "createFolder" \in Range(errors') => destFolders' = destFolders]_vars

\* C15 witness: a run returned after createFolder failed with the root and
\* one subfolder already created.
C15_Witness ==
  /\ cpc = "returned" /\ StructureFailed /\ ~success
  /\ Len(destFolders) = 2

\* C16: a failed item copy is not fatal.  In a returned result of a run whose
\* structure phase went through, the flat list holds exactly the source files
\* whose copy did not fail, folderStructure holds records of those only,
\* every source folder has its counterpart, and success is true unless the
\* report failed.
C16_ItemFailureNotFatal ==
  (cpc = "returned" /\ ~RootFailed /\ ~StructureFailed) =>
    /\ {SourceOf(createdFiles[i]) : i \in DOMAIN createdFiles} \ {0}
         = DOMAIN source.files \ itemFailed
    /\ \A info \in StructureFiles : SourceOf(info) \notin itemFailed
    /\ StructureFiles \subseteq Range(createdFiles)
    /\ {destFolders[d].src : d \in DOMAIN destFolders} = DOMAIN source.folders
    /\ ~ReportFailed => success

\* C16 witness: a run returned with success after one file of the root failed
\* and another file, in a subfolder, was copied.
C16_Witness ==
  /\ cpc = "returned" /\ success
  /\ \E f \in itemFailed : source.files[f].folder = 1
  /\ \E i \in DOMAIN createdFiles :
       SourceOf(createdFiles[i]) # 0 /\ source.files[SourceOf(createdFiles[i])].folder # 1

\* C17: a failed item copy leaves a message in the errors of the result:
\* errors is empty only if every source file was copied.
C17_ItemFailureInErrors ==
  (cpc = "returned" /\ errors = <<>>) => itemFailed = {}

\* The scenario A/{B/{file1}, file2} into an empty destination, no Drive call
\* failing, the run returned.
Scenario21 ==
  /\ cpc = "returned"
  /\ source.folders = <<[parent |-> 0, name |-> <<"a">>], [parent |-> 1, name |-> <<"b">>]>>
  /\ DOMAIN source.files = {1, 2}
  /\ {source.files[i].folder : i \in DOMAIN source.files} = {1, 2}
  /\ \A i \in DOMAIN source.files : source.files[i].name = "f"
  /\ destNames = {}
  /\ thrown = {}
\* The result the scenario expects, but for the count of the files: root A,
\* in it B holding the copy of file1, and the copy of file2.
Tree21 ==
  /\ Len(destFolders) = 2 /\ destFolders[1].name = <<"a">> /\ destFolders[1].parent = 0
  /\ folderIdMap[1].name = <<"a">>
  /\ Keys(folderIdMap[1].subFolders) = {<<"b">>}
  /\ LET b == Get(folderIdMap[1].subFolders, <<"b">>) IN
       /\ folderIdMap[b].name = <<"b">> /\ folderIdMap[b].subFolders = {}
       /\ destFolders[b].parent = 1
       /\ Keys(folderIdMap[b].files) = {"f"}
       /\ source.files[SourceOf(Get(folderIdMap[b].files, "f"))].folder = 2
       /\ destFiles[Get(folderIdMap[b].files, "f").id].folder = b
  /\ "f" \in Keys(folderIdMap[1].files)
  /\ source.files[SourceOf(Get(folderIdMap[1].files, "f"))].folder = 1
  /\ destFiles[Get(folderIdMap[1].files, "f").id].folder = 1
  /\ summary.folderCount = 2
  /\ errors = <<>>
  /\ success

\* C21 as claimed: in the scenario, with no option supplied (saveJsonOutput
\* takes its default), the result is the expected tree and totalFiles is 2.
C21_ScenarioAsClaimed ==
  (Scenario21 /\ saveJsonOutput = SaveFlag("absent")) =>
    (Tree21 /\ summary.totalFiles = 2)

\* C21: in the scenario the result has root A with subcontainer B holding
\* file1 and file2 at the root, folderCount 2, no errors and success true;
\* totalFiles is 2 when no report is written, and 3 when the report is
\* written (the default), the report being one more item at the root.
C21_Scenario ==
  Scenario21 =>
    /\ Tree21
    /\ summary.totalFiles = IF saveJsonOutput THEN 3 ELSE 2
    /\ Keys(folderIdMap[1].files) = IF saveJsonOutput THEN {"f", JSON_REPORT_FILENAME} ELSE {"f"}
    /\ Len(destFiles) = summary.totalFiles

\* C21 witness: the scenario has run with the default of saveJsonOutput.
C21_Witness ==
  Scenario21 /\ saveJsonOutput = SaveFlag("absent") /\ summary.totalFiles = 3

\* The report was asked for and both of its steps went through.
ReportWritten ==
  /\ cpc = "returned"
  /\ saveJsonOutput /\ destFolders # <<>>
  /\ thrown \cap {"prepare", "createFile", "setContent", "getSize"} = {}

C23_ReportFailureCaught ==
  (thrown \cap {"createFile", "setContent", "getSize"} # {}) =>
    /\ cpc = "returned"
    /\ ~success
    /\ "Failed to save JSON report file" \in Range(errors)

\* C23 witness: the whole tree, a subfolder and a file, was copied and the
\* write of the content is the only call that threw.
C23_Witness ==
  /\ thrown = {"setContent"} /\ cpc = "returned" /\ ~success
  /\ Len(destFolders) = Len(source.folders) /\ Len(destFolders) >= 2
  /\ Len(source.files) >= 1 /\ Len(createdFiles) = Len(source.files) + 1
  /\ errors = <<"Failed to save JSON report file">>

\* The structure phase of the run was aborted: creating the root or a
\* subfolder threw.
StructureAborted == thrown \cap {"root", "createFolder"} # {}

\* C33: every folder of the run, the root and the subfolders, is created
\* before the first file is copied and none is created once the item phase
\* has begun; when the structure phase is aborted the item phase never
\* starts, and no file of the source is copied or recorded.
C33_StructureBeforeItems ==
  /\ [](/\ cpc = "structure" => (destFiles = <<>> /\ createdFiles = <<>>)
        /\ StructureAborted =>
             /\ cpc # "files"
             /\ \A i \in DOMAIN destFiles : destFiles[i].src = 0
             /\ \A i \in DOMAIN createdFiles : createdFiles[i].name = JSON_REPORT_FILENAME
             /\ itemFailed = {})
  /\ [][/\ destFolders' # destFolders => (cpc \in {"start", "structure"} /\ destFiles = <<>>)
        /\ cpc \notin {"start", "structure"} => destFolders' = destFolders]_vars

\* C33 witness: a run of a source with files has returned after the creation
\* of its second subfolder failed.
C33_Witness ==
  /\ cpc = "returned" /\ "createFolder" \in thrown
  /\ Len(destFolders) = 2 /\ Len(source.files) > 0

\* The names of the created folders from the new root down to folder d, and
\* a list of names joined with '/'.
RECURSIVE NamesDown(_)
NamesDown(d) ==
  IF destFolders[d].parent = 0
    THEN <<destFolders[d].name>>
    ELSE Append(NamesDown(destFolders[d].parent), destFolders[d].name)

RECURSIVE Joined(_)
Joined(names) ==
  IF Len(names) = 1 THEN names[1] ELSE names[1] \o <<"/">> \o Joined(Tail(names))

\* The records of the run: those of the flat list and those of the nodes.
Records ==
  {createdFiles[i] : i \in DOMAIN createdFiles} \cup
  UNION {{kv[2] : kv \in folderIdMap[n].files} : n \in DOMAIN folderIdMap}

\* C34: the path of every record is the '/'-joined names of the created
\* folders from the new root down to the folder the file is in: it starts
\* with the name of the new root, which lies directly in the destination, and
\* for a file directly in the root, the report included, it is the root's name.
C34_PathFromNewRoot ==
  \A record \in Records :
    /\ record.folderId \in DOMAIN destFolders
    /\ record.path = Joined(NamesDown(record.folderId))
    /\ NamesDown(record.folderId)[1] = destFolders[1].name
    /\ SubSeq(record.path, 1, Len(destFolders[1].name)) = destFolders[1].name
    /\ destFolders[1].parent = 0
    /\ record.folderId = 1 => record.path = destFolders[1].name

\* C34 witness: the run has returned with the report in the root and a copy
\* in a subfolder of a subfolder of the root.
C34_Witness ==
  /\ cpc = "returned"
  /\ \E i \in DOMAIN createdFiles :
       createdFiles[i].name = JSON_REPORT_FILENAME /\ createdFiles[i].folderId = 1
  /\ \E i \in DOMAIN createdFiles :
       LET d == createdFiles[i].folderId
       IN d # 1 /\ destFolders[d].parent # 1 /\ Len(NamesDown(d)) = 3

\* The flat list ends with the record of the report.
ReportRecorded ==
  createdFiles # <<>> /\ createdFiles[Len(createdFiles)].id \in DOMAIN destFiles
  /\ destFiles[createdFiles[Len(createdFiles)].id].src = 0

\* C35: in every returned result totalSize is the sum of the sizes of the
\* flat list as returned: the report's record counts with the size of the
\* written file after a successful write, and with the provisional 0 when
\* the write failed after the placeholder was recorded.
C35_TotalSizeIsSum ==
  cpc = "returned" =>
    /\ summary.totalSize = SumSizes(createdFiles)
    /\ ReportRecorded =>
         LET record == createdFiles[Len(createdFiles)]
             copies == SubSeq(createdFiles, 1, Len(createdFiles) - 1)
         IN /\ thrown \cap {"setContent", "getSize"} = {} =>
                 /\ record.size = destFiles[record.id].size
                 /\ record.size > 0
                 /\ summary.totalSize = SumSizes(copies) + destFiles[record.id].size
            /\ thrown \cap {"setContent", "getSize"} # {} =>
                 /\ record.size = 0
                 /\ summary.totalSize = SumSizes(copies)

\* C35 witness: the run has returned with the written report and two copies.
C35_Witness ==
  /\ cpc = "returned" /\ ReportRecorded /\ Len(createdFiles) = 3
  /\ thrown = {} /\ summary.totalSize > Len(createdFiles)

ReportItems == {i \in DOMAIN destFiles : destFiles[i].src = 0}

ReportRecordIn(structure) == Get(structure[1].files, JSON_REPORT_FILENAME)

\* C39: once the content of the report was written and the run has returned,
\* the written content and the returned result agree on success, errors,
\* totalFiles, folderCount, folderStructure, and on the report's own record
\* with its size and the resulting totalSize.
C39_ContentIsResult ==
  \A content \in reportContent :
    cpc = "returned" =>
      /\ content.success = success
      /\ content.errors = errors
      /\ content.summary.totalFiles = summary.totalFiles
      /\ content.summary.folderCount = summary.folderCount
      /\ content.folderStructure = folderIdMap
      /\ ReportRecordIn(content.folderStructure) = ReportRecordIn(folderIdMap)
      /\ content.summary.totalSize = summary.totalSize

\* ------------------------------------------------ properties of RootSpec
\* Call c has resolved its name / has created its root.
Resolved(c) == rpc[c] \in {"create", "done"}
Succeeded(c) == rpc[c] = "done"

\* C18: the name getUniqueFolderName returned for baseName, against the
\* folder names `seen` of the parent at the call, is baseName when that is
\* free; else baseName with the timestamp of the call when that is free; else
\* baseName with that same timestamp and the smallest counter from 1 that is
\* free; and in every case it is not the name of a folder of the parent.
C18_UniqueName ==
  \A c \in Calls : Resolved(c) =>
    LET l == rloc[c]
        ts == FormatDate(l.at)
    IN /\ l.base \notin l.seen => l.name = l.base
       /\ (l.base \in l.seen /\ Stamped(l.base, ts) \notin l.seen) =>
            l.name = Stamped(l.base, ts)
       /\ (l.base \in l.seen /\ Stamped(l.base, ts) \in l.seen) =>
            \E k \in 1..(Cardinality(l.seen) + 1) :
              /\ l.name = Numbered(l.base, ts, k)
              /\ \A i \in 1..(k - 1) : Numbered(l.base, ts, i) \in l.seen
       /\ l.name \notin l.seen

\* C18 witness: a call found the name, the name with the timestamp and the
\* one with counter 1 taken and returned the name with counter 2.
C18_Witness ==
  \E c \in Calls :
    /\ Resolved(c)
    /\ rloc[c].name = Numbered(rloc[c].base, FormatDate(rloc[c].at), 2)

\* C19: two calls that overlapped (neither had returned when the other
\* resolved its name), asked for the same name in the same destination and
\* both succeeded have roots of different names.
C19_ConcurrentRootsDiffer ==
  \A c \in Calls : \A d \in Calls :
    (/\ c # d /\ Succeeded(c) /\ Succeeded(d)
     /\ rloc[c].base = rloc[d].base
     /\ c \notin rloc[d].earlier /\ d \notin rloc[c].earlier) =>
      rloc[c].name # rloc[d].name

\* C20: of two successful calls with the same requested name, the second
\* started after the first had returned, the second has created a root of
\* its own: another folder of the destination, with another id and another
\* name, and the first root is still what the first call made it.
C20_NotIdempotent ==
  \A c \in Calls : \A d \in Calls :
    (Succeeded(c) /\ Succeeded(d) /\ c \in rloc[d].earlier /\ rloc[c].base = rloc[d].base) =>
      /\ rloc[c].root # rloc[d].root
      /\ rloc[c].name # rloc[d].name
      /\ \A x \in {c, d} :
           /\ rloc[x].root \in DOMAIN destFolders
           /\ destFolders[rloc[x].root] = [name |-> rloc[x].name, parent |-> 0, src |-> 1]

\* C20 witness: the same name was requested twice in sequence within one
\* second, and both calls succeeded.
C20_Witness ==
  \E c \in Calls : \E d \in Calls :
    /\ Succeeded(c) /\ Succeeded(d) /\ c \in rloc[d].earlier
    /\ rloc[c].base = rloc[d].base
    /\ FormatDate(rloc[c].at) = FormatDate(rloc[d].at)

====
